---- MODULE Spec2Model ----
(***************************************************************************)
(* A model of kael (tchaudhry91/kael): the value bridge between Go and Lua *)
(* values, the tool closure built by define_tool (merge, validate, adapt,  *)
(* run, adapt), the exec command's input builder, the docker and native    *)
(* executors' timeout handling, and the kit directory with its wiring      *)
(* files.  Strings are TLA+ strings, so the code's substring operations    *)
(* (strings.Contains, strings.Replace, strings.Split, ...) are computed on *)
(* the characters and not on an abstraction of them.                       *)
(***************************************************************************)
EXTENDS Integers, Sequences, FiniteSets, TLC

(***************************************************************************)
(* Bounds of the model.                                                    *)
(***************************************************************************)
\* longest inner list of the value bridge's inputs
MaxLen == 2
\* longest outer list (a list holding lists and maps) of the bridge's inputs
MaxOuter == 1
\* most keys in a caller's parameter table
MaxParams == 2
\* longest stdout of a tool whose output is read as lines
MaxOut == 4
\* most arguments after the tool path of kael exec
MaxArgs == 3
\* largest opts.Timeout, in seconds
MaxTimeout == 2
\* most calls of tools.define_tool by scripts run after the kit is loaded
MaxDefined == 2

(***************************************************************************)
(* Go's strings package, on TLA+ strings.                                  *)
(***************************************************************************)
\* s[i:j] on 1-based inclusive positions
Sub(s, i, j) == SubSeq(s, i, j)

\* strings.HasPrefix
HasPrefix(s, p) == Len(s) >= Len(p) /\ Sub(s, 1, Len(p)) = p

\* strings.HasSuffix
HasSuffix(s, p) == Len(s) >= Len(p) /\ Sub(s, Len(s) - Len(p) + 1, Len(s)) = p

\* the 1-based positions at which sub occurs in s
Occurrences(s, sub) ==
  {i \in 1..(Len(s) - Len(sub) + 1) : Sub(s, i, i + Len(sub) - 1) = sub}

RECURSIVE IndexFrom(_, _, _)
\* the first position from i on at which sub occurs in s; 0 for none
IndexFrom(s, sub, i) ==
  IF i + Len(sub) - 1 > Len(s) THEN 0
  ELSE IF Sub(s, i, i + Len(sub) - 1) = sub THEN i
  ELSE IndexFrom(s, sub, i + 1)

\* strings.Index, 1-based; 0 when sub does not occur
Index(s, sub) == IndexFrom(s, sub, 1)

\* strings.Contains
Contains(s, sub) == Index(s, sub) # 0

\* strings.Replace(s, old, new, 1): the first occurrence only
ReplaceFirst(s, old, new) ==
  LET i == Index(s, old) IN
  IF i = 0 THEN s
  ELSE Sub(s, 1, i - 1) \o new \o Sub(s, i + Len(old), Len(s))

\* strings.TrimPrefix
TrimPrefix(s, p) == IF HasPrefix(s, p) THEN Sub(s, Len(p) + 1, Len(s)) ELSE s

\* strings.TrimSuffix(s, "\n"): one trailing newline goes
TrimOneNewline(s) ==
  IF HasSuffix(s, "\n") THEN Sub(s, 1, Len(s) - 1) ELSE s

\* strings.TrimRight(s, "\n"): every trailing newline goes
RECURSIVE TrimRightNewlines(_)
TrimRightNewlines(s) ==
  IF Len(s) > 0 /\ Sub(s, Len(s), Len(s)) = "\n"
  THEN TrimRightNewlines(Sub(s, 1, Len(s) - 1))
  ELSE s

\* strings.Split(s, sep) for a non-empty sep: always at least one element
RECURSIVE Split(_, _)
Split(s, sep) ==
  LET i == Index(s, sep) IN
  IF i = 0 THEN <<s>>
  ELSE <<Sub(s, 1, i - 1)>> \o Split(Sub(s, i + Len(sep), Len(s)), sep)

RECURSIVE Join(_, _)
\* strings.Join
Join(lines, sep) ==
  IF lines = << >> THEN ""
  ELSE IF Len(lines) = 1 THEN lines[1]
  ELSE lines[1] \o sep \o Join(Tail(lines), sep)

\* the elements of a sequence
Range(seq) == {seq[i] : i \in DOMAIN seq}

\* the sequences over S of length at most n
SeqsUpTo(S, n) == UNION {[1..k -> S] : k \in 0..n}

\* the functions from a subset of the keys K to S (a string-keyed map)
MapsOver(K, S) == UNION {[D -> S] : D \in SUBSET K}

(***************************************************************************)
(* Values.  A Go value of the JSON shape (any) and a Lua value (LValue)    *)
(* are tuples led by their type tag.  A Lua table holds its array part and *)
(* its string-keyed part (strdict); the tables of this model get their     *)
(* entries from Append and SetField with string keys only, as the code's   *)
(* own tables do.                                                          *)
(***************************************************************************)
GoNil == <<"nil">>
GoBool(b) == <<"bool", b>>
GoNum(n) == <<"float64", n>>
GoStr(s) == <<"string", s>>
GoList(items) == <<"slice", items>>
GoMap(m) == <<"map", m>>

LNil == <<"nil">>
LBool(b) == <<"boolean", b>>
LNumber(n) == <<"number", n>>
LString(s) == <<"string", s>>
LTable(array, strdict) == <<"table", array, strdict>>
\* a value the bridge and the adapters have no case for
LFunction(id) == <<"function", id>>

LTrue == LBool(TRUE)
LFalse == LBool(FALSE)
NewTable == LTable(<< >>, << >>)
TypeOf(lv) == lv[1]
IsTable(lv) == TypeOf(lv) = "table"
ArrayOf(tbl) == tbl[2]
StrDictOf(tbl) == tbl[3]

\* LTable.Append: a nil value is not appended
Append_(tbl, v) ==
  IF v = LNil THEN tbl ELSE LTable(ArrayOf(tbl) \o <<v>>, StrDictOf(tbl))

\* LState.SetField / LTable.RawSetString: setting nil removes the key
SetField(tbl, k, v) ==
  LET d == StrDictOf(tbl) IN
  IF v = LNil
  THEN LTable(ArrayOf(tbl), [x \in (DOMAIN d) \ {k} |-> d[x]])
  ELSE LTable(ArrayOf(tbl), [x \in (DOMAIN d) \cup {k} |-> IF x = k THEN v ELSE d[x]])

\* LState.GetField / LTable.RawGetString: nil for a key the table lacks
GetField(tbl, k) ==
  IF k \in DOMAIN StrDictOf(tbl) THEN StrDictOf(tbl)[k] ELSE LNil

\* LTable.MaxN: the last index of the array part holding a value
MaxN(tbl) == Len(ArrayOf(tbl))

\* LTable.RawGetInt
RawGetInt(tbl, i) == IF i \in 1..Len(ArrayOf(tbl)) THEN ArrayOf(tbl)[i] ELSE LNil

(***************************************************************************)
(* The value bridge.                                                       *)
(***************************************************************************)
RECURSIVE luaToGo(_)
\* luaToGo with the array loop stopping one short (i < maxN)
luaToGo_ShortLoop(lv) ==
  CASE TypeOf(lv) = "nil" -> GoNil
    [] TypeOf(lv) = "boolean" -> GoBool(lv[2])
    [] TypeOf(lv) = "number" -> GoNum(lv[2])
    [] TypeOf(lv) = "string" -> GoStr(lv[2])
    [] TypeOf(lv) = "table" ->
         IF MaxN(lv) > 0
         THEN GoList([i \in 1..(MaxN(lv) - 1) |-> luaToGo(RawGetInt(lv, i))])
         ELSE GoMap([k \in DOMAIN StrDictOf(lv) |-> luaToGo(StrDictOf(lv)[k])])
    [] OTHER -> GoNil

luaToGo(lv) ==
  CASE TypeOf(lv) = "nil" -> GoNil
    [] TypeOf(lv) = "boolean" -> GoBool(lv[2])
    [] TypeOf(lv) = "number" -> GoNum(lv[2])
    [] TypeOf(lv) = "string" -> GoStr(lv[2])
    [] TypeOf(lv) = "table" ->
         IF MaxN(lv) > 0
         THEN GoList([i \in 1..MaxN(lv) |-> luaToGo(RawGetInt(lv, i))])
         ELSE GoMap([k \in DOMAIN StrDictOf(lv) |-> luaToGo(StrDictOf(lv)[k])])
    [] OTHER -> GoNil

RECURSIVE goToLua(_)
RECURSIVE AppendAll(_, _)
RECURSIVE SetAll(_, _, _)

\* for _, item := range v { tbl.Append(goToLua(L, item)) }
AppendAll(tbl, items) ==
  IF items = << >> THEN tbl
  ELSE AppendAll(Append_(tbl, goToLua(Head(items))), Tail(items))

\* for key, val := range v { L.SetField(tbl, key, goToLua(L, val)) }: the keys
\* of a Go map are distinct, so the order of the range does not show
SetAll(tbl, m, keys) ==
  IF keys = {} THEN tbl
  ELSE LET k == CHOOSE x \in keys : TRUE IN
       SetAll(SetField(tbl, k, goToLua(m[k])), m, keys \ {k})

goToLua(v) ==
  CASE v[1] = "nil" -> LNil
    [] v[1] = "bool" -> LBool(v[2])
    [] v[1] = "float64" -> LNumber(v[2])
    [] v[1] = "string" -> LString(v[2])
    [] v[1] = "slice" -> AppendAll(NewTable, v[2])
    [] v[1] = "map" -> SetAll(NewTable, v[2], DOMAIN v[2])
    [] OTHER -> LNil

(***************************************************************************)
(* Iteration.  LTable.ForEach visits the array part in index order and     *)
(* then the string keys in an order the Go map gives; a Go map's range has *)
(* no fixed order either.  Where the order shows in the result the caller  *)
(* passes it in (a sequence enumerating the keys) and the action picks it. *)
(***************************************************************************)
\* the enumerations of a finite set: every order a range may take
Orders(S) == {s \in [1..Cardinality(S) -> S] : Range(s) = S}

\* one enumeration, for a loop whose result does not depend on the order
SeqOf(S) == CHOOSE s \in Orders(S) : TRUE

\* the (key.String(), value) pairs ForEach visits, string keys in keyOrder
ForEachEntries(tbl, keyOrder) ==
  [i \in 1..Len(ArrayOf(tbl)) |-> <<ToString(i), ArrayOf(tbl)[i]>>]
    \o [i \in 1..Len(keyOrder) |-> <<keyOrder[i], StrDictOf(tbl)[keyOrder[i]]>>]

\* the values v.ForEach visits in a nested table
TableItems(tbl) ==
  ArrayOf(tbl)
    \o [i \in 1..Cardinality(DOMAIN StrDictOf(tbl)) |->
          StrDictOf(tbl)[SeqOf(DOMAIN StrDictOf(tbl))[i]]]

(***************************************************************************)
(* Formatting.                                                             *)
(***************************************************************************)
RECURSIVE StripZeros(_)
\* the digits without their trailing zeros
StripZeros(d) ==
  IF Len(d) > 1 /\ Sub(d, Len(d), Len(d)) = "0"
  THEN StripZeros(Sub(d, 1, Len(d) - 1))
  ELSE d

RECURSIVE FormatG(_)
\* fmt.Sprintf("%g", float64(v)) of a whole number: plain digits below 1e+06,
\* mantissa and two-digit exponent from there on
FormatG(n) ==
  IF n < 0 THEN "-" \o FormatG(0 - n)
  ELSE IF n < 1000000 THEN ToString(n)
  ELSE LET d == ToString(n)
           m == StripZeros(d)
           e == Len(d) - 1
       IN  (IF Len(m) = 1 THEN m ELSE Sub(m, 1, 1) \o "." \o Sub(m, 2, Len(m)))
             \o "e+" \o (IF e < 10 THEN "0" ELSE "") \o ToString(e)

\* LValue.String(): a whole number prints as an integer; a table prints its
\* address, which is left as the fixed text below
LuaString(lv) ==
  CASE TypeOf(lv) = "nil" -> "nil"
    [] TypeOf(lv) = "boolean" -> IF lv[2] THEN "true" ELSE "false"
    [] TypeOf(lv) = "number" -> ToString(lv[2])
    [] TypeOf(lv) = "string" -> lv[2]
    [] TypeOf(lv) = "table" -> "table: 0x0"
    [] OTHER -> "function: 0x0"

\* %q of a name without characters to escape
Quote(s) == "\"" \o s \o "\""

(***************************************************************************)
(* Schema (parseShorthand, validateInput, checkType).                      *)
(***************************************************************************)
\* FieldSchema from "string" or "number?"
parseShorthand(s) ==
  IF HasSuffix(s, "?")
  THEN [Type |-> Sub(s, 1, Len(s) - 1), Required |-> FALSE]
  ELSE [Type |-> s, Required |-> TRUE]

\* parseFields over a table of shorthand strings
parseFields(tbl) == [name \in DOMAIN tbl |-> parseShorthand(tbl[name])]

\* *ToolSchema: nil (Declared = FALSE), or a schema whose Input may be nil
NoSchema == [Declared |-> FALSE, HasInput |-> FALSE, Input |-> << >>]
SchemaWithoutInput == [Declared |-> TRUE, HasInput |-> FALSE, Input |-> << >>]
SchemaOf(inputTbl) ==
  [Declared |-> TRUE, HasInput |-> TRUE, Input |-> parseFields(inputTbl)]

\* checkType without its number case
checkType_NoNumberCase(name, expectedType, val) ==
  CASE expectedType = "string" ->
         IF TypeOf(val) # "string"
         THEN "field " \o Quote(name) \o ": expected string, got " \o TypeOf(val)
         ELSE ""
    [] expectedType = "boolean" ->
         IF TypeOf(val) # "boolean"
         THEN "field " \o Quote(name) \o ": expected boolean, got " \o TypeOf(val)
         ELSE ""
    [] expectedType \in {"array", "object"} ->
         IF TypeOf(val) # "table"
         THEN "field " \o Quote(name) \o ": expected " \o expectedType
                \o ", got " \o TypeOf(val)
         ELSE ""
    [] OTHER -> ""

\* the error of checkType, "" for none; a type name outside the five has no
\* case and passes
checkType(name, expectedType, val) ==
  CASE expectedType = "string" ->
         IF TypeOf(val) # "string"
         THEN "field " \o Quote(name) \o ": expected string, got " \o TypeOf(val)
         ELSE ""
    [] expectedType = "number" ->
         IF TypeOf(val) # "number"
         THEN "field " \o Quote(name) \o ": expected number, got " \o TypeOf(val)
         ELSE ""
    [] expectedType = "boolean" ->
         IF TypeOf(val) # "boolean"
         THEN "field " \o Quote(name) \o ": expected boolean, got " \o TypeOf(val)
         ELSE ""
    [] expectedType \in {"array", "object"} ->
         IF TypeOf(val) # "table"
         THEN "field " \o Quote(name) \o ": expected " \o expectedType
                \o ", got " \o TypeOf(val)
         ELSE ""
    [] OTHER -> ""

RECURSIVE validateFields(_, _, _)
\* the loop of validateInput taking every absent field as a required one
validateFields_AbsentFails(input, merged, fieldOrder) ==
  IF fieldOrder = << >> THEN ""
  ELSE LET name == Head(fieldOrder)
           field == input[name]
           val == GetField(merged, name)
       IN  IF val = LNil
           THEN "missing required field " \o Quote(name)
                  \o " (expected " \o field.Type \o ")"
           ELSE IF checkType(name, field.Type, val) # ""
                THEN checkType(name, field.Type, val)
                ELSE validateFields(input, merged, Tail(fieldOrder))

\* the loop of validateInput over the fields in the order the range takes:
\* the first failure returns
validateFields(input, merged, fieldOrder) ==
  IF fieldOrder = << >> THEN ""
  ELSE LET name == Head(fieldOrder)
           field == input[name]
           val == GetField(merged, name)
       IN  IF val = LNil
           THEN IF field.Required
                THEN "missing required field " \o Quote(name)
                       \o " (expected " \o field.Type \o ")"
                ELSE validateFields(input, merged, Tail(fieldOrder))
           ELSE IF checkType(name, field.Type, val) # ""
                THEN checkType(name, field.Type, val)
                ELSE validateFields(input, merged, Tail(fieldOrder))

\* validateInput: "" when valid or when there is nothing to validate against
validateInput(schema, merged, fieldOrder) ==
  IF ~schema.Declared \/ ~schema.HasInput THEN ""
  ELSE validateFields(schema.Input, merged, fieldOrder)

(***************************************************************************)
(* The merge of the tool closure.                                          *)
(***************************************************************************)
RECURSIVE SetEach(_, _)
\* L.SetField(merged, k, v) for each pair
SetEach(tbl, entries) ==
  IF entries = << >> THEN tbl
  ELSE SetEach(SetField(tbl, Head(entries)[1], Head(entries)[2]), Tail(entries))

\* the pairs of cfg.Defaults (a nil map ranges over nothing)
DefaultsEntries(defaults) ==
  [i \in 1..Cardinality(DOMAIN defaults) |->
     <<SeqOf(DOMAIN defaults)[i], defaults[SeqOf(DOMAIN defaults)[i]]>>]

\* the merge with the two loops swapped: defaults written last
Merge_DefaultsLast(defaults, userParamsTbl) ==
  SetEach(SetEach(NewTable,
                  ForEachEntries(userParamsTbl, SeqOf(DOMAIN StrDictOf(userParamsTbl)))),
          DefaultsEntries(defaults))

\* merged := defaults, then the caller's parameters over them
Merge(defaults, userParamsTbl) ==
  SetEach(SetEach(NewTable, DefaultsEntries(defaults)),
          ForEachEntries(userParamsTbl, SeqOf(DOMAIN StrDictOf(userParamsTbl))))

(***************************************************************************)
(* Adapters.  A byte slice is nil (NoBytes), text (Text(s)), or the JSON    *)
(* encoding of a value, written as the value it encodes (JsonOf(v)): no    *)
(* property below reads inside the encoding.                               *)
(***************************************************************************)
NoBytes == <<"nil">>
Text(s) == <<"text", s>>
JsonOf(v) == <<"json", v>>

RECURSIVE RepeatFlag(_, _)
\* args = append(args, name, item.String()) for each item
RepeatFlag(name, items) ==
  IF items = << >> THEN << >>
  ELSE <<name, LuaString(Head(items))>> \o RepeatFlag(name, Tail(items))

\* the switch of argsFromTable with the boolean case appending the flag
\* whatever the value
argsOfEntry_FalseEmitted(name, val) ==
  CASE TypeOf(val) = "boolean" -> <<name>>
    [] TypeOf(val) = "number" -> <<name, FormatG(val[2])>>
    [] TypeOf(val) = "string" -> <<name, val[2]>>
    [] TypeOf(val) = "table" -> RepeatFlag(name, TableItems(val))
    [] OTHER -> << >>

\* the switch of argsFromTable: what one key appends
argsOfEntry(name, val) ==
  CASE TypeOf(val) = "boolean" -> IF val[2] THEN <<name>> ELSE << >>
    [] TypeOf(val) = "number" -> <<name, FormatG(val[2])>>
    [] TypeOf(val) = "string" -> <<name, val[2]>>
    [] TypeOf(val) = "table" -> RepeatFlag(name, TableItems(val))
    [] OTHER -> << >>

RECURSIVE argsOfEntries(_)
argsOfEntries(entries) ==
  IF entries = << >> THEN << >>
  ELSE argsOfEntry("--" \o Head(entries)[1], Head(entries)[2])
         \o argsOfEntries(Tail(entries))

\* argsFromTable: <<stdinBytes, extraArgs, err>>
argsFromTable(tbl, keyOrder) ==
  <<NoBytes, argsOfEntries(ForEachEntries(tbl, keyOrder)), "">>

RECURSIVE positionalValues(_, _)
RECURSIVE positionalValues_Reversed(_, _)
\* the first loop of positionalFromTable walking argsOrder from its end
positionalValues_Reversed(tbl, argsOrder) ==
  IF argsOrder = << >> THEN << >>
  ELSE LET val == GetField(tbl, Head(argsOrder))
           rest == positionalValues_Reversed(tbl, Tail(argsOrder))
       IN  IF val = LNil THEN rest
           ELSE CASE TypeOf(val) = "number" -> rest \o <<FormatG(val[2])>>
                  [] TypeOf(val) = "string" -> rest \o <<val[2]>>
                  [] OTHER -> rest \o <<LuaString(val)>>

\* the first loop of positionalFromTable: the values of the keys of
\* argsOrder, a key the table lacks skipped
positionalValues(tbl, argsOrder) ==
  IF argsOrder = << >> THEN << >>
  ELSE LET val == GetField(tbl, Head(argsOrder))
           rest == positionalValues(tbl, Tail(argsOrder))
       IN  IF val = LNil THEN rest
           ELSE CASE TypeOf(val) = "number" -> <<FormatG(val[2])>> \o rest
                  [] TypeOf(val) = "string" -> <<val[2]>> \o rest
                  [] OTHER -> <<LuaString(val)>> \o rest

\* the switch of the second loop of positionalFromTable
flagsOfEntry(flag, val) ==
  CASE TypeOf(val) = "boolean" -> IF val[2] THEN <<flag>> ELSE << >>
    [] TypeOf(val) = "number" -> <<flag, FormatG(val[2])>>
    [] TypeOf(val) = "string" -> <<flag, val[2]>>
    [] TypeOf(val) = "table" -> RepeatFlag(flag, TableItems(val))
    [] OTHER -> << >>

RECURSIVE remainingFlags(_, _)
\* the second loop of positionalFromTable: a consumed key returns early
remainingFlags(entries, consumed) ==
  IF entries = << >> THEN << >>
  ELSE (IF Head(entries)[1] \in consumed THEN << >>
        ELSE flagsOfEntry("--" \o Head(entries)[1], Head(entries)[2]))
         \o remainingFlags(Tail(entries), consumed)

\* positionalFromTable: <<stdinBytes, extraArgs, err>>
positionalFromTable(tbl, argsOrder, keyOrder) ==
  <<NoBytes,
    positionalValues(tbl, argsOrder)
      \o remainingFlags(ForEachEntries(tbl, keyOrder), Range(argsOrder)),
    "">>

\* adaptInput: <<stdinBytes, extraArgs, err>>; json.Marshal of a value that
\* luaToGo built does not fail
adaptInput(inputAdapter, merged, argsOrder, keyOrder) ==
  CASE inputAdapter = "json" -> <<JsonOf(luaToGo(merged)), << >>, "">>
    [] inputAdapter = "positional_args" ->
         positionalFromTable(merged, argsOrder, keyOrder)
    [] OTHER -> argsFromTable(merged, keyOrder)

\* the documents json.Unmarshal is given in this model, and their values
JsonDocs ==
  [d \in {"{}", "{\"status\":\"ok\"}", "{\"name\":\"in\",\"status\":\"ok\"}",
          "[1,2]", "null"} |->
     CASE d = "{}" -> GoMap(<< >>)
       [] d = "{\"name\":\"in\",\"status\":\"ok\"}" ->
            GoMap([k \in {"name", "status"} |->
                     IF k = "name" THEN GoStr("in") ELSE GoStr("ok")])
       [] d = "{\"status\":\"ok\"}" -> GoMap([k \in {"status"} |-> GoStr("ok")])
       [] d = "[1,2]" -> GoList(<<GoNum(1), GoNum(2)>>)
       [] OTHER -> GoNil]

\* json.Unmarshal(outputB, &output): <<value, err>>
JsonUnmarshal(s) ==
  IF s \in DOMAIN JsonDocs THEN <<JsonDocs[s], "">>
  ELSE IF s = "" THEN <<GoNil, "unexpected end of JSON input">>
  ELSE <<GoNil, "invalid character " \o "'" \o Sub(s, 1, 1) \o "'"
                  \o " looking for beginning of value">>

\* for _, line := range strings.Split(raw, "\n") { lines = append(lines, line) }
LinesOf(raw) ==
  IF raw # "" THEN [i \in 1..Len(Split(raw, "\n")) |-> GoStr(Split(raw, "\n")[i])]
  ELSE << >>

\* adaptOutput: <<output, err>>; the runner's bytes are text here
adaptOutput(outputAdapter, outputB) ==
  CASE outputAdapter = "json" ->
         IF JsonUnmarshal(outputB[2])[2] # ""
         THEN <<GoNil, "Data UnMarshal Failure: " \o JsonUnmarshal(outputB[2])[2]>>
         ELSE <<JsonUnmarshal(outputB[2])[1], "">>
    [] outputAdapter = "lines" ->
         <<GoMap([k \in {"lines"} |-> GoList(LinesOf(TrimRightNewlines(outputB[2])))]), "">>
    [] OTHER -> <<GoMap([k \in {"output"} |-> GoStr(outputB[2])]), "">>

(***************************************************************************)
(* kael exec: buildInput and parseValue.  The input map is GoMap(m), or    *)
(* NilMap, the nil map json.Unmarshal leaves for the document null.        *)
(***************************************************************************)
NilMap == <<"nilmap">>

\* stdin: a terminal (nothing is read), or a pipe and the bytes read from it
NotPiped == <<"tty">>
Piped(data) == <<"pipe", data>>

\* the value of a decimal digit, -1 for any other character
DigitVal(c) ==
  CASE c = "0" -> 0 [] c = "1" -> 1 [] c = "2" -> 2 [] c = "3" -> 3
    [] c = "4" -> 4 [] c = "5" -> 5 [] c = "6" -> 6 [] c = "7" -> 7
    [] c = "8" -> 8 [] c = "9" -> 9 [] OTHER -> 0 - 1

RECURSIVE AllDigits(_)
AllDigits(s) ==
  s = "" \/ (DigitVal(Sub(s, 1, 1)) >= 0 /\ AllDigits(Sub(s, 2, Len(s))))

RECURSIVE DigitsValue(_)
DigitsValue(s) ==
  IF s = "" THEN 0
  ELSE 10 * DigitsValue(Sub(s, 1, Len(s) - 1)) + DigitVal(Sub(s, Len(s), Len(s)))

\* strconv.ParseFloat(s, 64) on whole decimal numbers with an optional sign:
\* <<n, ok>>; the other spellings of a float are not among the model's tokens
ParseFloat(s) ==
  LET signed == HasPrefix(s, "-") \/ HasPrefix(s, "+")
      digits == IF signed THEN Sub(s, 2, Len(s)) ELSE s
  IN  IF digits # "" /\ AllDigits(digits)
      THEN <<IF HasPrefix(s, "-") THEN 0 - DigitsValue(digits) ELSE DigitsValue(digits),
             TRUE>>
      ELSE <<0, FALSE>>

\* parseValue
parseValue(s) ==
  IF s = "true" THEN GoBool(TRUE)
  ELSE IF s = "false" THEN GoBool(FALSE)
  ELSE IF ParseFloat(s)[2] /\ ~Contains(s, "://") /\ ~Contains(s, "/")
       THEN GoNum(ParseFloat(s)[1])
       ELSE GoStr(s)

\* input[key] = v
MapPut(m, k, v) ==
  GoMap([x \in (DOMAIN m[2]) \cup {k} |-> IF x = k THEN v ELSE m[2][x]])

RECURSIVE parseFlags(_, _, _)
\* the loop of buildInput from position i: <<input, err>>
parseFlags(args, i, input) ==
  IF i > Len(args) THEN <<input, "">>
  ELSE LET arg == args[i]
           key == TrimPrefix(arg, "--")
       IN  IF ~HasPrefix(arg, "--")
           THEN <<NilMap, "unexpected argument " \o Quote(arg)
                            \o " (expected --key or --key value)">>
           ELSE IF key = "" THEN <<NilMap, "empty flag name">>
           ELSE IF input = NilMap
                THEN <<NilMap, "panic: assignment to entry in nil map">>
           ELSE IF i + 1 > Len(args) \/ HasPrefix(args[i + 1], "--")
                THEN parseFlags(args, i + 1, MapPut(input, key, GoBool(TRUE)))
                ELSE parseFlags(args, i + 2, MapPut(input, key, parseValue(args[i + 1])))

\* json.Unmarshal(data, &input) into a map[string]any: <<input, err>>
UnmarshalObject(data) ==
  LET r == JsonUnmarshal(data) IN
  IF r[2] # "" THEN <<NilMap, r[2]>>
  ELSE IF r[1] = GoNil THEN <<NilMap, "">>
  ELSE IF r[1][1] = "map" THEN <<r[1], "">>
  ELSE <<NilMap, "json: cannot unmarshal array into Go value of type map[string]interface {}">>

\* the first part of buildInput: the map the flags are parsed into
stdinInput(stdin) ==
  IF stdin = NotPiped THEN <<GoMap(<< >>), "">>
  ELSE IF stdin[2] = "" THEN <<GoMap(<< >>), "">>
  ELSE IF UnmarshalObject(stdin[2])[2] # ""
       THEN <<NilMap, "parsing stdin JSON: " \o UnmarshalObject(stdin[2])[2]>>
       ELSE UnmarshalObject(stdin[2])

\* buildInput reading the pipe after the flags: what stdin holds wins
buildInput_StdinLast(args, stdin) ==
  IF stdinInput(stdin)[2] # "" THEN stdinInput(stdin)
  ELSE IF parseFlags(args, 1, GoMap(<< >>))[2] # ""
       THEN parseFlags(args, 1, GoMap(<< >>))
  ELSE IF stdinInput(stdin)[1] = NilMap THEN stdinInput(stdin)
  ELSE LET f == parseFlags(args, 1, GoMap(<< >>))[1][2]
           s == stdinInput(stdin)[1][2]
       IN  <<GoMap([k \in (DOMAIN f) \cup (DOMAIN s) |->
                      IF k \in DOMAIN s THEN s[k] ELSE f[k]]), "">>

\* buildInput: <<input, err>>
buildInput(args, stdin) ==
  IF stdinInput(stdin)[2] # "" THEN stdinInput(stdin)
  ELSE parseFlags(args, 1, stdinInput(stdin)[1])

(***************************************************************************)
(* dockerRun and nativeRun.  Containers are a map from name to state.      *)
(***************************************************************************)
\* fmt.Sprintf("kael-%d-%d", os.Getpid(), time.Now().UnixNano())
ContainerNameOf(pid, nanos) == "kael-" \o ToString(pid) \o "-" \o ToString(nanos)

\* the kill command given a name that is not the container's
killContainer_WrongName(cs, name) == cs

\* exec.Command(runtime, "kill", containerName).Run(), its error dropped: a
\* running container of that name is killed, anything else is left as it is
killContainer(cs, name) ==
  [n \in DOMAIN cs |-> IF n = name /\ cs[n] = "running" THEN "killed" ELSE cs[n]]

\* fmt.Errorf("execution timed out after %ds", opts.Timeout)
TimedOutError(t) == <<"error", "execution timed out after " \o ToString(t) \o "s">>

\* &RunError{ExitCode: exitCode, ...}
RunErrorOf(code) == <<"RunError", code>>

\* stdout.Bytes(), nil
RunOutput(out) == <<"ok", out>>

NoResult == <<"none">>

(***************************************************************************)
(* The kit directory.  A kit is a map from the paths of its files, relative *)
(* to the kit root, to their contents.                                      *)
(***************************************************************************)
\* what kitInit writes into a new init.lua
EmptyInit == "local M = {}\nreturn M\n"

\* the text wireNamespace looks for and inserts
requireLine(name, requirePath) ==
  "M." \o name \o " = require(" \o Quote(requirePath) \o ")"

\* wireNamespace without the test for a line already present
wireNamespace_AlwaysInserts(fs, initPath, name, requirePath) ==
  IF initPath \notin DOMAIN fs
  THEN <<fs, "open " \o initPath \o ": no such file or directory">>
  ELSE LET content == fs[initPath]
           newContent ==
             ReplaceFirst(content, "return M",
                          requireLine(name, requirePath) \o "\nreturn M")
       IN  IF newContent = content
           THEN <<fs, "could not find 'return M' in " \o initPath>>
           ELSE <<[fs EXCEPT ![initPath] = newContent], "">>

\* wireNamespace: <<the files afterwards, err>>
wireNamespace(fs, initPath, name, requirePath) ==
  IF initPath \notin DOMAIN fs
  THEN <<fs, "open " \o initPath \o ": no such file or directory">>
  ELSE LET content == fs[initPath]
           newContent ==
             ReplaceFirst(content, "return M",
                          requireLine(name, requirePath) \o "\nreturn M")
       IN  IF Contains(content, requireLine(name, requirePath))
           THEN <<fs, "">>
           ELSE IF newContent = content
           THEN <<fs, "could not find 'return M' in " \o initPath>>
           ELSE <<[fs EXCEPT ![initPath] = newContent], "">>

\* unwireNamespace taking the require line out and leaving its newline
unwireNamespace_KeepsNewline(fs, initPath, name, requirePath) ==
  IF initPath \notin DOMAIN fs
  THEN <<fs, "open " \o initPath \o ": no such file or directory">>
  ELSE LET content == fs[initPath]
           newContent == ReplaceFirst(content, requireLine(name, requirePath), "")
       IN  IF newContent = content
           THEN <<fs, "could not find require line for " \o Quote(name)
                        \o " in " \o initPath>>
           ELSE <<[fs EXCEPT ![initPath] = newContent], "">>

\* unwireNamespace: <<the files afterwards, err>>
unwireNamespace(fs, initPath, name, requirePath) ==
  IF initPath \notin DOMAIN fs
  THEN <<fs, "open " \o initPath \o ": no such file or directory">>
  ELSE LET content == fs[initPath]
           newContent ==
             ReplaceFirst(content, requireLine(name, requirePath) \o "\n", "")
       IN  IF newContent = content
           THEN <<fs, "could not find require line for " \o Quote(name)
                        \o " in " \o initPath>>
           ELSE <<[fs EXCEPT ![initPath] = newContent], "">>

(***************************************************************************)
(* Paths.                                                                  *)
(***************************************************************************)
\* the position of the last occurrence of sub in s, 0 for none
LastIndex(s, sub) ==
  LET occ == Occurrences(s, sub) IN
  IF occ = {} THEN 0 ELSE CHOOSE i \in occ : \A j \in occ : j <= i

\* filepath.Ext of a file name: from its last dot on
Ext(name) ==
  IF LastIndex(name, ".") = 0 THEN ""
  ELSE Sub(name, LastIndex(name, "."), Len(name))

\* strings.TrimSuffix
TrimSuffix(s, p) == IF HasSuffix(s, p) THEN Sub(s, 1, Len(s) - Len(p)) ELSE s

RECURSIVE ReplaceAll(_, _, _)
\* strings.ReplaceAll for an old that new does not contain
ReplaceAll(s, old, new) ==
  IF Contains(s, old) THEN ReplaceAll(ReplaceFirst(s, old, new), old, new) ELSE s

\* filepath.Join(filepath.Join(parts...), file) relative to the kit root, for
\* the dotted path of a namespace ("" for the root)
FileIn(nsPath, file) ==
  IF nsPath = "" THEN file ELSE ReplaceAll(nsPath, ".", "/") \o "/" \o file

\* the dotted path without its last part, and the last part
ParentOf(path) ==
  IF LastIndex(path, ".") = 0 THEN "" ELSE Sub(path, 1, LastIndex(path, ".") - 1)
LastPart(path) == Sub(path, LastIndex(path, ".") + 1, Len(path))

(***************************************************************************)
(* generateLua.                                                            *)
(***************************************************************************)
\* skeletonAnalysis
skeletonAnalysis(entrypoint) ==
  [Type |-> CASE Ext(entrypoint) = ".sh" -> "shell"
              [] Ext(entrypoint) \in {".js", ".ts"} -> "node"
              [] OTHER -> "python",
   Entrypoint |-> entrypoint,
   Executor |-> "native"]

\* generateLua of an analysis with the fields of the skeleton
generateLua(source, a) ==
  "return tools.define_tool({\n"
    \o "    source = " \o Quote(source) \o ",\n"
    \o "    entrypoint = " \o Quote(a.Entrypoint) \o ",\n"
    \o "    type = " \o Quote(a.Type) \o ",\n"
    \o "    executor = " \o Quote(IF a.Executor = "" THEN "native" ELSE a.Executor)
    \o ",\n"
    \o "})\n"

(***************************************************************************)
(* Loading a kit.  NewEngine runs kit = require("init") with package.path   *)
(* "<kit>/?.lua;<kit>/?/init.lua".  The Lua of a kit is read line by line:  *)
(* an init file is made of the lines kitInit and wireNamespace write, a    *)
(* tool file is what generateLua writes.  A loaded value is a table of     *)
(* loaded values, a tool function (registered by define_tool), the value   *)
(* true (what require stores for a chunk that returns nothing), or an      *)
(* error.                                                                  *)
(***************************************************************************)
\* the load of v failed
IsError(v) == v[1] = "error"

\* the characters of a Lua name
NameChars ==
  {Sub("abcdefghijklmnopqrstuvwxyzABCDEFGHIJKLMNOPQRSTUVWXYZ_0123456789", i, i) :
     i \in 1..63}

\* s is a Lua name: letters, digits and underscores, no digit first, no
\* reserved word
IsName(s) ==
  /\ s # ""
  /\ \A i \in 1..Len(s) : Sub(s, i, i) \in NameChars
  /\ ~Contains("0123456789", Sub(s, 1, 1))
  /\ s \notin
       {"and", "break", "do", "else", "elseif", "end", "false", "for",
        "function", "goto", "if", "in", "local", "nil", "not", "or", "repeat",
        "return", "then", "true", "until", "while"}

\* the statement M.<name> = require("<path>") taken apart, with or without a
\* comment behind it; Ok is FALSE when the line is no such statement (a name
\* that is not one Lua name makes the line another statement or none)
ParseRequire(line) ==
  LET eq == Index(line, " = require(\"")
      close == IF eq = 0 THEN 0 ELSE IndexFrom(line, "\")", eq + 12)
      rest == Sub(line, close + 2, Len(line))
  IN  IF HasPrefix(line, "M.") /\ close > 0
           /\ (rest = "" \/ HasPrefix(rest, "--") \/ HasPrefix(rest, " --"))
      THEN [Ok |-> IsName(Sub(line, 3, eq - 1))
                     /\ ~Contains(Sub(line, eq + 12, close - 1), "\""),
            Name |-> Sub(line, 3, eq - 1),
            Path |-> Sub(line, eq + 12, close - 1)]
      ELSE [Ok |-> FALSE, Name |-> "", Path |-> ""]

\* the chunk compiles: every line is a statement of the kind above, and
\* return is the last statement of the chunk
Compiles(lines) ==
  /\ \A i \in DOMAIN lines :
       \/ lines[i] \in {"", "local M = {}", "return M"}
       \/ ParseRequire(lines[i]).Ok
  /\ \A i \in DOMAIN lines :
       lines[i] = "return M" => \A j \in (i + 1)..Len(lines) : lines[j] = ""

\* the file is a tool definition as generateLua writes it
IsToolFile(content) ==
  HasPrefix(content, "return tools.define_tool({\n") /\ HasSuffix(content, "})\n")

RECURSIVE require(_, _, _)
RECURSIVE runChunk(_, _, _, _, _)

\* the statements of a chunk in order; local is whether M is the local
\* table, fields what it holds
runChunk(fs, lines, loading, local, fields) ==
  IF lines = << >> THEN <<"true">>
  ELSE LET line == Head(lines) IN
       CASE line = "" -> runChunk(fs, Tail(lines), loading, local, fields)
         [] line = "local M = {}" -> runChunk(fs, Tail(lines), loading, TRUE, << >>)
         [] line = "return M" -> IF local THEN <<"table", fields>> ELSE <<"true">>
         [] OTHER ->
              IF ~local THEN <<"error", "attempt to index a non-table object(nil)">>
              ELSE LET stmt == ParseRequire(line)
                       v == require(fs, stmt.Path, loading)
                   IN  IF IsError(v) THEN v
                       ELSE runChunk(fs, Tail(lines), loading, local,
                                     [k \in DOMAIN fields \cup {stmt.Name} |->
                                        IF k = stmt.Name THEN v ELSE fields[k]])

\* require(modPath) while the modules of loading are being loaded; the file
\* is the first package.path finds, <modPath>.lua before <modPath>/init.lua
require(fs, modPath, loading) ==
  LET base == ReplaceAll(modPath, ".", "/")
      file == IF base \o ".lua" \in DOMAIN fs THEN base \o ".lua"
              ELSE IF base \o "/init.lua" \in DOMAIN fs THEN base \o "/init.lua"
              ELSE ""
  IN  IF file = "" THEN <<"error", "module " \o modPath \o " not found">>
      ELSE IF modPath \in loading
      THEN <<"error", "loop or previous error loading module: " \o modPath>>
      ELSE IF IsToolFile(fs[file]) THEN <<"tool", file>>
      ELSE LET lines == Split(fs[file], "\n") IN
           IF ~Compiles(lines) THEN <<"error", file \o ": syntax error">>
           ELSE runChunk(fs, lines, loading \cup {modPath}, FALSE, << >>)

\* NewEngine: the kit global, or the error of the load
NewEngine(fs) == require(fs, "init", {})

RECURSIVE walkTable(_)
\* walkTable: the tool functions and the tables of a table
walkTable(fields) ==
  [Tools |-> [n \in {k \in DOMAIN fields : fields[k][1] = "tool"} |-> fields[n][2]],
   Children |-> [n \in {k \in DOMAIN fields : fields[k][1] = "table"} |->
                   walkTable(fields[n][2])]]

\* ListTools of an engine whose kit global is kit
ListTools(kit) ==
  IF kit[1] # "table" THEN [Tools |-> << >>, Children |-> << >>]
  ELSE walkTable(kit[2])

RECURSIVE ToolPathsOf(_, _)
\* every dotted path at which the tree holds a tool
ToolPathsOf(node, prefix) ==
  {prefix \o n : n \in DOMAIN node.Tools}
    \cup UNION {ToolPathsOf(node.Children[c], prefix \o c \o ".") :
                  c \in DOMAIN node.Children}

RECURSIVE resolveParts(_, _, _)
\* the loop of resolveTool: the error, "" when the tool is found
resolveParts(node, parts, path) ==
  IF Len(parts) = 1
  THEN IF parts[1] \in DOMAIN node.Tools THEN ""
       ELSE "tool " \o Quote(path) \o " not found"
  ELSE IF parts[1] \notin DOMAIN node.Children
  THEN "namespace " \o Quote(parts[1]) \o " not found in path " \o Quote(path)
  ELSE resolveParts(node.Children[parts[1]], Tail(parts), path)

\* resolveTool
resolveTool(root, path) == resolveParts(root, Split(path, "."), path)


RECURSIVE resolveSegments(_, _, _)
\* the loop of ExecTool over the parts left of toolPath, current being the
\* value reached: the function found, or the error
resolveSegments(current, parts, toolPath) ==
  IF parts = << >>
  THEN IF current[1] = "tool" THEN <<"fn", current[2]>>
       ELSE <<"error", Quote(toolPath) \o " is not a tool function">>
  ELSE IF current[1] # "table"
  THEN <<"error", "cannot resolve " \o Quote(toolPath) \o ": "
                    \o Quote(Head(parts)) \o " is not a table">>
  ELSE IF Head(parts) \notin DOMAIN current[2]
  THEN <<"error", "tool " \o Quote(toolPath) \o " not found">>
  ELSE resolveSegments(current[2][Head(parts)], Tail(parts), toolPath)
(***************************************************************************)
(* The kit commands, as functions of the kit's files.  The result of a     *)
(* command is the files it leaves, the error it returns ("" for none) and  *)
(* the warning of the validation it ends with ("" for none).               *)
(***************************************************************************)
CmdResult(fs, err, warning) == [Files |-> fs, Err |-> err, Warning |-> warning]

\* os.WriteFile and os.Remove
WriteFile(fs, path, content) ==
  [p \in DOMAIN fs \cup {path} |-> IF p = path THEN content ELSE fs[p]]
Remove(fs, path) == [p \in DOMAIN fs \ {path} |-> fs[p]]

\* kitValidate finding every kit valid
kitValidate_NeverFails(fs) == ""

\* kitValidate: the error of NewEngine
kitValidate(fs) ==
  LET kit == NewEngine(fs) IN
  IF IsError(kit) THEN "kit validation failed: " \o kit[2] ELSE ""

\* the directory a local script is added from
SourceDir == "/scripts"

\* kitAdd writing the tool file whether or not it exists
kitAdd_NoExistsCheck(fs, script, namespace, force) ==
  LET nsInit == FileIn(namespace, "init.lua")
      toolName == TrimSuffix(script, Ext(script))
      written == WriteFile(fs, FileIn(namespace, toolName \o ".lua"),
                           generateLua(SourceDir, skeletonAnalysis(script)))
      wired == wireNamespace(written, nsInit, toolName, namespace \o "." \o toolName)
  IN  IF nsInit \notin DOMAIN fs
      THEN CmdResult(fs, "namespace " \o Quote(namespace) \o " does not exist", "")
      ELSE IF wired[2] # ""
      THEN CmdResult(wired[1], "wire namespace: " \o wired[2], "")
      ELSE CmdResult(wired[1], "", kitValidate(wired[1]))

\* kitAdd of a script file of SourceDir with --manual: the entrypoint is the
\* file's name and the analysis is the skeleton
kitAdd(fs, script, namespace, force) ==
  LET nsInit == FileIn(namespace, "init.lua")
      analysis == skeletonAnalysis(script)
      entrypoint == IF analysis.Entrypoint # "" THEN analysis.Entrypoint ELSE script
      toolName == TrimSuffix(entrypoint, Ext(entrypoint))
      luaContent == generateLua(SourceDir, analysis)
      luaPath == FileIn(namespace, toolName \o ".lua")
      written == WriteFile(fs, luaPath, luaContent)
      wired == wireNamespace(written, nsInit, toolName, namespace \o "." \o toolName)
  IN  IF nsInit \notin DOMAIN fs
      THEN CmdResult(fs, "namespace " \o Quote(namespace) \o " does not exist", "")
      ELSE IF luaPath \in DOMAIN fs /\ ~force
      THEN CmdResult(fs, "tool " \o Quote(toolName) \o " already exists at "
                           \o luaPath \o " (use --force to overwrite)", "")
      ELSE IF wired[2] # ""
      THEN CmdResult(wired[1], "wire namespace: " \o wired[2], "")
      ELSE CmdResult(wired[1], "", kitValidate(wired[1]))

\* kitRemove
kitRemove(fs, toolPath) ==
  LET kit == NewEngine(fs)
      found == resolveTool(ListTools(kit), toolPath)
      toolName == LastPart(toolPath)
      luaFile == FileIn(ParentOf(toolPath), toolName \o ".lua")
      parentInit == FileIn(ParentOf(toolPath), "init.lua")
      removed == Remove(fs, luaFile)
      unwired == unwireNamespace(removed, parentInit, toolName, toolPath)
  IN  IF IsError(kit) THEN CmdResult(fs, "kit load: " \o kit[2], "")
      ELSE IF found # "" THEN CmdResult(fs, found, "")
      ELSE IF luaFile \notin DOMAIN fs
      THEN CmdResult(fs, "remove " \o luaFile \o ": no such file or directory", "")
      ELSE IF unwired[2] # ""
      THEN CmdResult(unwired[1], "unwire namespace: " \o unwired[2], "")
      ELSE CmdResult(unwired[1], "", kitValidate(unwired[1]))

RECURSIVE initLevels(_, _, _)
\* the loop of kitInit writing a new init.lua at every level, present or not
initLevels_OverwritesInit(fs, prefix, parts) ==
  IF parts = << >> THEN CmdResult(fs, "", "")
  ELSE LET requirePath == IF prefix = "" THEN parts[1] ELSE prefix \o "." \o parts[1]
           made == WriteFile(fs, FileIn(requirePath, "init.lua"), EmptyInit)
           wired == wireNamespace(made, FileIn(prefix, "init.lua"), parts[1], requirePath)
       IN  IF wired[2] # ""
           THEN CmdResult(wired[1], "wire namespace: " \o wired[2], "")
           ELSE initLevels(wired[1], requirePath, Tail(parts))

\* the loop of kitInit over the levels of the namespace, prefix the dotted
\* path of the levels done
initLevels(fs, prefix, parts) ==
  IF parts = << >> THEN CmdResult(fs, "", "")
  ELSE LET requirePath == IF prefix = "" THEN parts[1] ELSE prefix \o "." \o parts[1]
           nsInit == FileIn(requirePath, "init.lua")
           made == IF nsInit \in DOMAIN fs THEN fs ELSE WriteFile(fs, nsInit, EmptyInit)
           wired == wireNamespace(made, FileIn(prefix, "init.lua"), parts[1], requirePath)
       IN  IF wired[2] # ""
           THEN CmdResult(wired[1], "wire namespace: " \o wired[2], "")
           ELSE initLevels(wired[1], requirePath, Tail(parts))

\* kitInit; namespace "" makes the top-level init.lua only
kitInit(fs, namespace) ==
  LET top == IF "init.lua" \in DOMAIN fs THEN fs ELSE WriteFile(fs, "init.lua", EmptyInit)
  IN  IF namespace = "" THEN CmdResult(top, "", "")
      ELSE initLevels(top, "", Split(namespace, "."))

(***************************************************************************)
(* parseSourcePath.                                                        *)
(***************************************************************************)
\* parseSourcePath searching for "//" from the start of the source
parseSourcePath_NoSchemeSkip(source) ==
  LET idx == Index(source, "//") IN
  IF idx = 0 THEN <<source, "">>
  ELSE <<Sub(source, 1, idx - 1),
         TrimPrefix(Sub(source, idx + 2, Len(source)), "/")>>

\* parseSourcePath: <<base, inRepoPath>>
parseSourcePath(source) ==
  LET protocolEnd == IF HasPrefix(source, "https://") THEN 8
                     ELSE IF HasPrefix(source, "http://") THEN 7
                     ELSE 0
      idx == Index(Sub(source, protocolEnd + 1, Len(source)), "//")
  IN  IF Index(source, "//") = 0 THEN <<source, "">>
      ELSE IF idx = 0 THEN <<source, "">>
      ELSE <<Sub(source, 1, idx + protocolEnd - 1),
             TrimPrefix(Sub(source, idx + protocolEnd + 2, Len(source)), "/")>>

(***************************************************************************)
(* The cache of git sources (gitCachePath, parseGitURL).                   *)
(***************************************************************************)
\* parseGitURL: <<provider, orgRepo>>, both "" for a URL it cannot take apart
parseGitURL(url) ==
  IF HasPrefix(url, "git@")
  THEN LET rest == Sub(url, 5, Len(url))
           colon == Index(rest, ":")
       IN  IF colon = 0 THEN <<"", "">>
           ELSE <<Sub(rest, 1, colon - 1), Sub(rest, colon + 1, Len(rest))>>
  ELSE LET rest == TrimPrefix(TrimPrefix(url, "https://"), "http://")
           idx == Index(rest, "/")
       IN  IF idx = 0 THEN <<"", "">>
           ELSE <<Sub(rest, 1, idx - 1), Sub(rest, idx + 1, Len(rest))>>

\* gitCachePath below the home directory: <<cachePath, err>>
gitCachePath(url) ==
  LET p == parseGitURL(url) IN
  IF p[1] = "" \/ p[2] = "" THEN <<"", "cannot parse git URL: " \o url>>
  ELSE <<"~/.kael/cache/" \o p[1] \o "/" \o TrimSuffix(p[2], ".git"), "">>

(***************************************************************************)
(* State.                                                                  *)
(***************************************************************************)
VARIABLES
  \* the value bridge: the native value handed in, and what came back
  native, back, bridged,
  \* one call of a tool closure: where it stands, the tool's config, the
  \* caller's table, the locals of the closure, the error raised and the
  \* number of times the runner was called; the executor field of the table
  \* define_tool was given, and ro.Executor of each e.Runner.Run of the call
  pc, cfg, userParams, merged, inputB, extraArgs, outputB, output, result,
  raised, runs, configExecutor, dispatched,
  \* one run of kael exec: where it stands, the arguments after the tool
  \* path, stdin, the input map built, the error returned, and whether
  \* ExecTool was called
  execPc, toolArgs, stdin, input, execErr, invoked,
  \* one run of dockerRun or nativeRun: where it stands, the executor,
  \* opts.Timeout, the container's name, the containers of the host, the
  \* tool process (for docker, the client of the container), its exit code,
  \* the seconds gone since the process started, ctx.Err(), whether the
  \* process was still running when the deadline expired, and what Run returned
  runPc, executor, timeout, containerName, containers, procState, exitCode,
  elapsed, ctxErr, expiredRunning, runResult,
  \* the kit directory: its files, the last kit command with its result, and
  \* the tool paths kit add has added and the namespaces kit init has made
  files, lastCmd, added, inited,
  \* calls of wireNamespace on one init file: the arguments of the last
  \* call, how many calls in a row had them, the file before the first and
  \* before the last of these calls, and the error of the last call
  wireArgs, wireCalls, wireFirst, wireBefore, wireErr,
  \* which of wireNamespace and unwireNamespace the last call was
  wireOp,
  \* a source argument of kit add and what parseSourcePath made of it
  source, parsed,
  \* one run of resolveGitSource: where it stands, its arguments with the
  \* cache path and what os.Stat found there, the cache paths that hold a
  \* working copy, the git commands run so far, and what it returned
  gitPc, resolving, clones, gitOps, resolved,
  \* the ref each working copy of the cache stands at, as <<cache path, ref>>
  heads,
  \* one Engine: whether NewEngine has returned it, its Registry (the tool
  \* functions with what defined each), the number of define_tool calls since
  \* NewEngine returned, and the last call of the Engine's API
  loaded, registry, defined, lastApi,
  \* the kit global of the Engine's Lua state
  kitGlobal,
  \* the Engine's Refresh field, and the RunOptions the last call of the API
  \* gave the Runner, if it gave any
  refreshFlag, lastRun,
  \* a second kael process resolving a git source on the same cache: where
  \* its resolveGitSource stands, its arguments, what its os.Stat found and
  \* the git commands it has run
  peer,
  \* one call of ListTools: the tables of the Lua state (heap[1] is the kit
  \* global), where the call stands, the frames of walkTable on the goroutine
  \* stack, and the paths of the tools put in the tree so far
  heap, walkPc, walkStack, walkFound,
  \* the images of the container runtime, and the calls of ensureImage and
  \* the removals of an image so far, in order
  images, imageLog,
  \* the REPL: whether its loop is reading, the accumulation buffer, the
  \* prompt readline shows, and the last thing read with what came of it
  replPc, replBuf, replPrompt, replIn, replOut

bridgeVars == <<native, back, bridged>>
callVars ==
  <<pc, cfg, userParams, merged, inputB, extraArgs, outputB, output, result,
    raised, runs, configExecutor, dispatched>>
execVars == <<execPc, toolArgs, stdin, input, execErr, invoked>>
runVars ==
  <<runPc, executor, timeout, containerName, containers, procState, exitCode,
    elapsed, ctxErr, expiredRunning, runResult>>
kitVars == <<files, lastCmd, added, inited>>
wireVars == <<wireArgs, wireCalls, wireFirst, wireBefore, wireErr, wireOp>>
parseVars == <<source, parsed>>
gitVars == <<gitPc, resolving, clones, gitOps, resolved, heads>>
engineVars == <<loaded, registry, defined, lastApi, kitGlobal, refreshFlag, lastRun>>
peerVars == <<peer>>
walkVars == <<heap, walkPc, walkStack, walkFound>>
imageVars == <<images, imageLog>>
replVars == <<replPc, replBuf, replPrompt, replIn, replOut>>
vars ==
  <<bridgeVars, callVars, execVars, runVars, kitVars, wireVars, parseVars, gitVars,
    engineVars, peerVars, walkVars, imageVars, replVars>>

(***************************************************************************)
(* The inputs of the value bridge: nil, booleans, floats, strings, lists   *)
(* and string-keyed maps, nested twice.                                    *)
(***************************************************************************)
GoValues ==
  LET scalars == {GoNil, GoBool(TRUE), GoNum(42), GoStr("a")}
      keys == {"k"}
      inner ==
        {GoList(l) : l \in SeqsUpTo(scalars, MaxLen)}
          \cup {GoMap(m) : m \in MapsOver(keys, scalars)}
      elems == scalars \cup inner
      outer ==
        {GoList(l) : l \in SeqsUpTo(elems, MaxOuter)}
          \cup {GoMap(m) : m \in MapsOver(keys, elems)}
  IN  elems \cup outer

\* no value is at the bridge
BridgeIdle ==
  /\ native = GoNil
  /\ back = GoNil
  /\ bridged = FALSE

BridgeInit ==
  /\ native \in GoValues
  /\ back = GoNil
  /\ bridged = FALSE

\* back := luaToGo(goToLua(L, native))
RoundTrip ==
  /\ ~bridged
  /\ back' = luaToGo(goToLua(native))
  /\ bridged' = TRUE
  /\ UNCHANGED native

(***************************************************************************)
(* A call of the closure define_tool returns.  The tools and the caller's  *)
(* tables are drawn from the sets below.                                   *)
(***************************************************************************)
\* ToolConfig, the fields the closure reads
Tool(defaults, schema, inputAdapter, outputAdapter, argsOrder) ==
  [Source |-> "git@github.com:someone/repo.git", Executor |-> "",
   Defaults |-> defaults, Schema |-> schema,
   InputAdapter |-> inputAdapter, OutputAdapter |-> outputAdapter,
   ArgsOrder |-> argsOrder]

NoTool == Tool(<< >>, NoSchema, "", "", << >>)

\* defineTool leaving cfg.Executor as it is when the table has no executor
defineTool_NoExecutorDefault(executorField, fields) ==
  [fields EXCEPT !.Executor =
     IF executorField # LNil THEN LuaString(executorField) ELSE @]

\* defineTool: the config of the tool it registers, from the executor field
\* of the table and the other fields as parsed
defineTool(executorField, fields) ==
  [fields EXCEPT !.Executor =
     IF executorField # LNil THEN LuaString(executorField) ELSE "docker"]

\* the caller's tables: at most MaxParams of the keys name, count, verbose
UserParams ==
  LET values == {LTrue, LFalse, LNumber(3), LString("world"),
                 LTable(<<LString("a"), LString("b")>>, << >>)}
  IN  {LTable(<< >>, m) :
         m \in {f \in MapsOver({"name", "count", "verbose"}, values) :
                  Cardinality(DOMAIN f) <= MaxParams}}

DefaultsSet ==
  {<< >>,
   [k \in {"name"} |-> LString("dflt")],
   [k \in {"name", "count"} |-> IF k = "name" THEN LString("dflt") ELSE LNumber(5)],
   [k \in {"verbose"} |-> LTrue]}

SchemaSet ==
  {NoSchema, SchemaWithoutInput,
   SchemaOf([k \in {"name", "count"} |-> IF k = "name" THEN "string" ELSE "number?"]),
   SchemaOf([k \in {"verbose", "name"} |-> IF k = "verbose" THEN "boolean" ELSE "array?"]),
   SchemaOf([k \in {"name", "count"} |-> IF k = "name" THEN "object" ELSE "number"]),
   SchemaOf([k \in {"count"} |-> "string?"])}

\* the calls, each the executor field of the tool's table, its other fields
\* and the caller's table: tools that differ in defaults and schema, called
\* with every table; tools that differ in input adapter, called with every
\* table; tools that differ in output adapter or in executor, called with an
\* empty table
CallInputs ==
  {<<LNil, Tool(d, s, "args", "text", << >>), p>> :
     d \in DefaultsSet, s \in SchemaSet, p \in UserParams}
    \cup {<<LNil, Tool(<< >>, NoSchema, "positional_args", "text", ao), p>> :
            ao \in {<< >>, <<"name", "count">>, <<"count", "name">>, <<"verbose">>},
            p \in UserParams}
    \cup {<<LNil, Tool(d, NoSchema, ia, "text", << >>), p>> :
            d \in {<< >>}, ia \in {"", "json", "yaml"}, p \in UserParams}
    \cup {<<LNil, Tool(<< >>, NoSchema, "json", oa, << >>), NewTable>> :
            oa \in {"", "json", "text", "lines"}}
    \cup {<<e, Tool(<< >>, NoSchema, "json", "json", << >>), NewTable>> :
            e \in {LString("native"), LString("docker"), LString(""), LNumber(3)}}

\* what a tool may print: lines of a's for a lines tool, documents and
\* something else for a json tool, one line otherwise
RECURSIVE Strings(_)
Strings(n) ==
  IF n = 0 THEN {""}
  ELSE Strings(n - 1) \cup {s \o c : s \in Strings(n - 1), c \in {"a", "\n"}}

Stdouts(outputAdapter) ==
  CASE outputAdapter = "lines" -> Strings(MaxOut)
    [] outputAdapter = "json" -> DOMAIN JsonDocs \cup {"", "oops"}
    [] OTHER -> {"some plain output"}

\* no call is in progress
CallIdle ==
  /\ pc = "idle"
  /\ cfg = NoTool
  /\ userParams = NewTable
  /\ merged = NewTable
  /\ inputB = NoBytes
  /\ extraArgs = << >>
  /\ outputB = NoBytes
  /\ output = GoNil
  /\ result = LNil
  /\ raised = ""
  /\ runs = 0
  /\ configExecutor = LNil
  /\ dispatched = << >>

\* the closure is entered: userParamsTbl := L.CheckTable(1), and the merge
Call ==
  /\ pc = "idle"
  /\ \E c \in CallInputs :
       /\ configExecutor' = c[1]
       /\ cfg' = defineTool(c[1], c[2])
       /\ userParams' = c[3]
       /\ merged' = Merge(c[2].Defaults, c[3])
  /\ pc' = "merged"
  /\ UNCHANGED <<inputB, extraArgs, outputB, output, result, raised, runs,
                 dispatched>>

\* validateInput with a failure that raises and goes on
Validate_GoesOn ==
  /\ pc = "merged"
  /\ \E fieldOrder \in Orders(DOMAIN cfg.Schema.Input) :
       LET err == validateInput(cfg.Schema, merged, fieldOrder) IN
       IF err # ""
       THEN raised' = "Schema Validation Failure: " \o err
       ELSE UNCHANGED raised
  /\ pc' = "validated"
  /\ UNCHANGED <<cfg, userParams, merged, inputB, extraArgs, outputB, output,
                 result, runs, configExecutor, dispatched>>

\* validateInput, its range over schema.Input in any order
Validate ==
  /\ pc = "merged"
  /\ \E fieldOrder \in Orders(DOMAIN cfg.Schema.Input) :
       LET err == validateInput(cfg.Schema, merged, fieldOrder) IN
       IF err # ""
       THEN /\ raised' = "Schema Validation Failure: " \o err
            /\ pc' = "raised"
       ELSE /\ pc' = "validated"
            /\ UNCHANGED raised
  /\ UNCHANGED <<cfg, userParams, merged, inputB, extraArgs, outputB, output,
                 result, runs, configExecutor, dispatched>>

\* adaptInput, ForEach over merged in any order; ro.ExtraArgs is set when
\* there are any
AdaptInput ==
  /\ pc = "validated"
  /\ \E keyOrder \in Orders(DOMAIN StrDictOf(merged)) :
       LET r == adaptInput(cfg.InputAdapter, merged, cfg.ArgsOrder, keyOrder) IN
       IF r[3] # ""
       THEN /\ raised' = r[3]
            /\ pc' = "raised"
            /\ UNCHANGED <<inputB, extraArgs>>
       ELSE /\ inputB' = r[1]
            /\ extraArgs' = r[2]
            /\ pc' = "adapted"
            /\ UNCHANGED raised
  /\ UNCHANGED <<cfg, userParams, merged, outputB, output, result, runs,
                 configExecutor, dispatched>>

\* e.Runner.Run returns the tool's stdout
RunnerRunOk ==
  /\ pc = "adapted"
  /\ \E s \in Stdouts(cfg.OutputAdapter) : outputB' = Text(s)
  /\ runs' = runs + 1
  /\ dispatched' = Append(dispatched, cfg.Executor)
  /\ pc' = "ran"
  /\ UNCHANGED <<cfg, userParams, merged, inputB, extraArgs, output, result, raised,
                 configExecutor>>

\* e.Runner.Run returns an error
RunnerRunErr ==
  /\ pc = "adapted"
  /\ raised' = "Tool Run Failure: exit 1: "
  /\ runs' = runs + 1
  /\ dispatched' = Append(dispatched, cfg.Executor)
  /\ pc' = "raised"
  /\ UNCHANGED <<cfg, userParams, merged, inputB, extraArgs, outputB, output, result,
                 configExecutor>>

\* adaptOutput, then goToLua of what it gave, pushed as the result
AdaptOutput ==
  /\ pc = "ran"
  /\ LET r == adaptOutput(cfg.OutputAdapter, outputB) IN
     IF r[2] # ""
     THEN /\ raised' = r[2]
          /\ pc' = "raised"
          /\ UNCHANGED <<output, result>>
     ELSE /\ output' = r[1]
          /\ result' = goToLua(r[1])
          /\ pc' = "returned"
          /\ UNCHANGED raised
  /\ UNCHANGED <<cfg, userParams, merged, inputB, extraArgs, outputB, runs,
                 configExecutor, dispatched>>

\* the call is over, by return or by error; the closure's locals are gone
Return ==
  /\ pc \in {"returned", "raised"}
  /\ pc' = "idle"
  /\ cfg' = NoTool
  /\ userParams' = NewTable
  /\ merged' = NewTable
  /\ inputB' = NoBytes
  /\ extraArgs' = << >>
  /\ outputB' = NoBytes
  /\ output' = GoNil
  /\ result' = LNil
  /\ raised' = ""
  /\ runs' = 0
  /\ configExecutor' = LNil
  /\ dispatched' = << >>

(***************************************************************************)
(* kael exec <tool> [--key value ...], stdin a terminal or a pipe.         *)
(***************************************************************************)
ArgTokens == {"--name", "--count", "--", "world", "3", "true", "-5"}

StdinInputs ==
  {NotPiped, Piped(""), Piped("{\"name\":\"in\",\"status\":\"ok\"}"),
   Piped("null"), Piped("[1,2]"), Piped("oops")}

\* kael exec is not running
ExecIdle ==
  /\ execPc = "idle"
  /\ toolArgs = << >>
  /\ stdin = NotPiped
  /\ input = NilMap
  /\ execErr = ""
  /\ invoked = FALSE

\* the command starts: toolArgs := args[1:]
ExecInit ==
  /\ execPc = "start"
  /\ toolArgs \in SeqsUpTo(ArgTokens, MaxArgs)
  /\ stdin \in StdinInputs
  /\ input = NilMap
  /\ execErr = ""
  /\ invoked = FALSE

\* execTool up to buildInput: an error returns "input: ..." at once
ExecBuildInput ==
  /\ execPc = "start"
  /\ LET r == buildInput(toolArgs, stdin) IN
     IF r[2] # ""
     THEN /\ execErr' = "input: " \o r[2]
          /\ execPc' = "failed"
          /\ UNCHANGED input
     ELSE /\ input' = r[1]
          /\ execPc' = "built"
          /\ UNCHANGED execErr
  /\ UNCHANGED <<toolArgs, stdin, invoked>>

\* execTool from e.ExecTool(ctx, toolPath, input) on
ExecInvoke ==
  /\ execPc = "built"
  /\ invoked' = TRUE
  /\ execPc' = "invoked"
  /\ UNCHANGED <<toolArgs, stdin, input, execErr>>

(***************************************************************************)
(* A run of a tool by the docker or the native executor, from the start of *)
(* the command to the return of dockerRun or nativeRun.  Time is counted   *)
(* in seconds; the deadline of context.WithTimeout expires once            *)
(* opts.Timeout seconds have gone, and time does not pass it unnoticed.    *)
(***************************************************************************)
\* another kael process's container on the same host
OtherContainer == ContainerNameOf(8, 1)
OwnPid == 7

\* no run is in progress
RunIdle ==
  /\ runPc = "idle"
  /\ executor = "docker"
  /\ timeout = 0
  /\ containerName = ""
  /\ containers = [n \in {OtherContainer} |-> "running"]
  /\ procState = "none"
  /\ exitCode = 0
  /\ elapsed = 0
  /\ ctxErr = ""
  /\ expiredRunning = FALSE
  /\ runResult = NoResult

\* dockerRun or nativeRun up to cmd.Run(): for docker the container is named
\* and started; the deadline is set when opts.Timeout > 0
StartRun ==
  /\ runPc = "idle"
  /\ \E e \in {"docker", "native"}, t \in 0..MaxTimeout, ns \in {1, 2} :
       /\ executor' = e
       /\ timeout' = t
       /\ IF e = "docker"
          THEN /\ containerName' = ContainerNameOf(OwnPid, ns)
               /\ containers' =
                    [n \in DOMAIN containers \cup {ContainerNameOf(OwnPid, ns)} |->
                       IF n = ContainerNameOf(OwnPid, ns) THEN "running"
                       ELSE containers[n]]
          ELSE UNCHANGED <<containerName, containers>>
  /\ procState' = "running"
  /\ runPc' = "running"
  /\ UNCHANGED <<exitCode, elapsed, ctxErr, expiredRunning, runResult>>

\* a second passes; with a deadline set, not beyond it before it expires
Tick ==
  /\ runPc \in {"running", "waited"}
  /\ elapsed <= MaxTimeout
  /\ (timeout > 0 /\ ctxErr = "") => elapsed < timeout
  /\ elapsed' = elapsed + 1
  /\ UNCHANGED <<runPc, executor, timeout, containerName, containers, procState,
                 exitCode, ctxErr, expiredRunning, runResult>>

\* the tool exits by itself; for docker the container exits and its client
\* with it
ProcessExits ==
  /\ procState = "running"
  /\ \E code \in {0, 1} : exitCode' = code
  /\ procState' = "exited"
  /\ IF executor = "docker"
     THEN containers' = [containers EXCEPT ![containerName] = "exited"]
     ELSE UNCHANGED containers
  /\ UNCHANGED <<runPc, executor, timeout, containerName, elapsed, ctxErr,
                 expiredRunning, runResult>>

\* the container whose client was killed exits by itself before the kill
\* command reaches it
ContainerExits ==
  /\ executor = "docker"
  /\ procState = "killed"
  /\ runPc \in {"running", "waited"}
  /\ containers[containerName] = "running"
  /\ containers' = [containers EXCEPT ![containerName] = "exited"]
  /\ UNCHANGED <<runPc, executor, timeout, containerName, procState, exitCode,
                 elapsed, ctxErr, expiredRunning, runResult>>

\* the deadline of context.WithTimeout expires: ctx.Err() is
\* DeadlineExceeded from now on, and exec.CommandContext kills the process
\* it started if it still runs (for docker the client, not the container)
DeadlineExpires ==
  /\ runPc \in {"running", "waited"}
  /\ timeout > 0
  /\ elapsed >= timeout
  /\ ctxErr = ""
  /\ ctxErr' = "DeadlineExceeded"
  /\ IF procState = "running"
     THEN /\ procState' = "killed"
          /\ exitCode' = 0 - 1
          /\ expiredRunning' = TRUE
     ELSE UNCHANGED <<procState, exitCode, expiredRunning>>
  /\ UNCHANGED <<runPc, executor, timeout, containerName, containers, elapsed,
                 runResult>>

\* err = cmd.Run() returns once the process is gone
CmdRunReturns ==
  /\ runPc = "running"
  /\ procState \in {"exited", "killed"}
  /\ runPc' = "waited"
  /\ UNCHANGED <<executor, timeout, containerName, containers, procState, exitCode,
                 elapsed, ctxErr, expiredRunning, runResult>>

\* the rest of dockerRun or nativeRun: on DeadlineExceeded the container is
\* killed by name (docker) and the timeout error returned; else a RunError
\* for a failed command; else stdout
RunReturns ==
  /\ runPc = "waited"
  /\ IF ctxErr = "DeadlineExceeded"
     THEN /\ containers' = IF executor = "docker"
                           THEN killContainer(containers, containerName)
                           ELSE containers
          /\ runResult' = TimedOutError(timeout)
     ELSE /\ runResult' = IF procState = "killed" \/ exitCode # 0
                          THEN RunErrorOf(exitCode)
                          ELSE RunOutput("out")
          /\ UNCHANGED containers
  /\ runPc' = "returned"
  /\ UNCHANGED <<executor, timeout, containerName, procState, exitCode, elapsed,
                 ctxErr, expiredRunning>>

(***************************************************************************)
(* The kit commands on a kit directory.                                    *)
(***************************************************************************)
\* the script files of SourceDir
Scripts == {"download.py", "check-disk.sh"}
\* the namespaces the commands are given
Namespaces == {"ops", "misc"}
\* the tool paths kit remove is given
RemovePaths ==
  {ns \o "." \o TrimSuffix(s, Ext(s)) : ns \in Namespaces, s \in Scripts}

\* an init.lua of the lines given
InitOf(lines) == "local M = {}\n" \o Join([i \in DOMAIN lines |-> lines[i] \o "\n"], "")
                   \o "return M\n"

\* a kit with the namespace ops and no tool
KitOps ==
  [p \in {"init.lua", "ops/init.lua"} |->
     IF p = "init.lua" THEN InitOf(<<requireLine("ops", "ops")>>) ELSE EmptyInit]

\* a kit with the namespaces ops and misc and the tool ops.download, added
\* from another directory
KitOpsMisc ==
  [p \in {"init.lua", "ops/init.lua", "ops/download.lua", "misc/init.lua"} |->
     CASE p = "init.lua" ->
            InitOf(<<requireLine("ops", "ops"), requireLine("misc", "misc")>>)
       [] p = "ops/init.lua" -> InitOf(<<requireLine("download", "ops.download")>>)
       [] p = "ops/download.lua" ->
            generateLua("/old", skeletonAnalysis("download.py"))
       [] OTHER -> EmptyInit]

\* the kit above with a comment written behind the line of ops.download
KitCommented ==
  [KitOpsMisc EXCEPT
     !["ops/init.lua"] =
       InitOf(<<requireLine("download", "ops.download") \o " -- fetches a file">>)]

NoCmd ==
  [Cmd |-> "", Arg |-> "", Force |-> FALSE, Err |-> "", Warning |-> "",
   Loadable |-> FALSE]

\* no kit command has run
KitIdle ==
  /\ files = KitOps
  /\ lastCmd = NoCmd
  /\ added = {}
  /\ inited = {}

\* a kit directory before the first command
KitInit ==
  /\ files \in {KitOps, KitOpsMisc}
  /\ lastCmd = NoCmd
  /\ added = {}
  /\ inited = {}

\* a kit directory someone has edited
KitEdited ==
  /\ files = KitCommented
  /\ lastCmd = NoCmd
  /\ added = {}
  /\ inited = {}

\* kael kit add <SourceDir>/<script> <namespace> --manual [--force]
KitAdd ==
  LET loadable == ~IsError(NewEngine(files)) IN
  \E script \in Scripts, ns \in Namespaces, force \in BOOLEAN :
    LET r == kitAdd(files, script, ns, force)
        path == ns \o "." \o TrimSuffix(script, Ext(script))
    IN  /\ files' = r.Files
        /\ lastCmd' = [Cmd |-> "add", Arg |-> path, Force |-> force, Err |-> r.Err,
                       Warning |-> r.Warning, Loadable |-> loadable]
        /\ added' = IF r.Err = "" THEN added \cup {path} ELSE added
        /\ UNCHANGED inited

\* kael kit remove <toolPath>
KitRemove ==
  LET loadable == ~IsError(NewEngine(files)) IN
  \E toolPath \in RemovePaths :
    LET r == kitRemove(files, toolPath) IN
    /\ files' = r.Files
    /\ lastCmd' = [Cmd |-> "remove", Arg |-> toolPath, Force |-> FALSE, Err |-> r.Err,
                   Warning |-> r.Warning, Loadable |-> loadable]
    /\ UNCHANGED <<added, inited>>

\* kael kit init <namespace> for one of the namespaces given; the namespaces
\* made are recorded when recorded is set
KitInitOf(namespaces, recorded) ==
  LET loadable == ~IsError(NewEngine(files)) IN
  \E ns \in namespaces :
    LET r == kitInit(files, ns) IN
    /\ files' = r.Files
    /\ lastCmd' = [Cmd |-> "init", Arg |-> ns, Force |-> FALSE, Err |-> r.Err,
                   Warning |-> r.Warning, Loadable |-> loadable]
    /\ inited' = IF recorded /\ r.Err = "" THEN inited \cup {ns} ELSE inited
    /\ UNCHANGED added

\* kael kit init <namespace> among the commands on tools
KitInitNamespace == KitInitOf(Namespaces, FALSE)

\* a kit directory before a run of kit init commands: one of the kits above,
\* or what kael kit init without a namespace makes
InitKitInit ==
  /\ files \in {KitOps, KitOpsMisc, [p \in {"init.lua"} |-> EmptyInit]}
  /\ lastCmd = NoCmd
  /\ added = {}
  /\ inited = {}

\* kael kit init <dotted namespace>
KitInitDotted ==
  KitInitOf({"ops", "net", "ops.net", "misc.net", "ops.net.dns"}, TRUE)

(***************************************************************************)
(* Calls of wireNamespace on one init file of any content.                 *)
(***************************************************************************)
\* most lines of the init file before the first call
MaxLines == 3
\* most calls in a row with the same arguments
MaxWireCalls == 2

\* the (name, requirePath) pairs of the calls
WireArgs == {<<"t", "ns.t">>, <<"u", "ns.u">>}

\* the init files: up to MaxLines lines, each ended by a newline, drawn from
\* the lines of an empty init.lua and the require lines of the calls
InitFiles ==
  LET lines == {"local M = {}", "return M"}
                 \cup {requireLine(a[1], a[2]) : a \in WireArgs}
  IN  {Join([i \in DOMAIN ls |-> ls[i] \o "\n"], "") :
         ls \in SeqsUpTo(lines, MaxLines)}

\* wireNamespace has not been called
WireIdle ==
  /\ wireArgs = <<"", "">>
  /\ wireCalls = 0
  /\ wireFirst = ""
  /\ wireBefore = ""
  /\ wireErr = ""
  /\ wireOp = ""

\* an init file of any content, wireNamespace not yet called
WireInit ==
  /\ \E content \in InitFiles : files = [p \in {"init.lua"} |-> content]
  /\ lastCmd = NoCmd
  /\ added = {}
  /\ inited = {}
  /\ WireIdle

\* wireNamespace("init.lua", name, requirePath)
WireNamespace ==
  \E a \in WireArgs :
    LET r == wireNamespace(files, "init.lua", a[1], a[2])
        calls == IF a = wireArgs THEN wireCalls + 1 ELSE 1
    IN  /\ calls <= MaxWireCalls
        /\ files' = r[1]
        /\ wireArgs' = a
        /\ wireCalls' = calls
        /\ wireFirst' = IF a = wireArgs THEN wireFirst ELSE files["init.lua"]
        /\ wireBefore' = files["init.lua"]
        /\ wireErr' = r[2]
        /\ wireOp' = "wire"
        /\ UNCHANGED <<lastCmd, added, inited>>

\* unwireNamespace("init.lua", name, requirePath)
UnwireNamespace ==
  \E a \in WireArgs :
    LET r == unwireNamespace(files, "init.lua", a[1], a[2])
        calls == IF a = wireArgs THEN wireCalls + 1 ELSE 1
    IN  /\ calls <= MaxWireCalls
        /\ files' = r[1]
        /\ wireArgs' = a
        /\ wireCalls' = calls
        /\ wireFirst' = IF a = wireArgs THEN wireFirst ELSE files["init.lua"]
        /\ wireBefore' = files["init.lua"]
        /\ wireErr' = r[2]
        /\ wireOp' = "unwire"
        /\ UNCHANGED <<lastCmd, added, inited>>

(***************************************************************************)
(* A source argument of kit add taken apart.                               *)
(***************************************************************************)
\* most pieces of a source argument
MaxPieces == 4

\* the source arguments: up to MaxPieces pieces, schemes, slashes and a name
Sources ==
  {Join(ps, "") :
     ps \in SeqsUpTo({"https://", "http://", "/", "//", "a"}, MaxPieces)}

\* no source has been parsed
ParseIdle ==
  /\ source = ""
  /\ parsed = <<"none">>

\* a source argument, not yet parsed
ParseInit ==
  /\ source \in Sources
  /\ parsed = <<"none">>

\* gitSource, inRepoPath := parseSourcePath(source)
ParseSource ==
  /\ parsed = <<"none">>
  /\ parsed' = <<"parsed", parseSourcePath(source)[1], parseSourcePath(source)[2]>>
  /\ UNCHANGED source

(***************************************************************************)
(* resolveGitSource, one git command at a time.  A git command succeeds or *)
(* fails as the remote and the disk have it.                               *)
(***************************************************************************)
NoSource == [Url |-> "", Tag |-> "", Refresh |-> FALSE, SubDir |-> "",
             CachePath |-> "", Cloned |-> FALSE]

\* no source is being resolved and the cache is empty
GitIdle ==
  /\ gitPc = "idle"
  /\ resolving = NoSource
  /\ clones = {}
  /\ gitOps = << >>
  /\ resolved = <<"none">>
  /\ heads = {}

\* the working copy at cachePath now stands at ref
SetHead(hs, cachePath, ref) ==
  {h \in hs : h[1] # cachePath} \cup {<<cachePath, ref>>}

\* the URLs resolved
GitUrls == {"git@github.com:org/repo.git", "https://github.com/org/repo", "tool.git"}

\* gitCachePath of each of them
CachePaths == [url \in GitUrls |-> gitCachePath(url)]

\* resolveGitSource entered only while no other process is inside it
ResolveGitSource_WaitsForPeer ==
  /\ gitPc \in {"idle", "done", "failed"}
  /\ peer.Pc \in {"idle", "done", "failed"}
  /\ \E url \in GitUrls,
        tag \in {"", "latest", "v1"}, refresh \in BOOLEAN, subDir \in {"", "sub"} :
       LET cachePath == CachePaths[url] IN
       /\ resolving' = [Url |-> url, Tag |-> tag, Refresh |-> refresh,
                         SubDir |-> subDir, CachePath |-> cachePath[1],
                         Cloned |-> cachePath[1] \in clones]
       /\ IF cachePath[2] # ""
          THEN gitPc' = "failed" /\ resolved' = <<"error", cachePath[2]>>
          ELSE /\ resolved' = <<"none">>
               /\ gitPc' = IF cachePath[1] \notin clones THEN "clone"
                            ELSE IF refresh THEN "fetch" ELSE "synced"
  /\ gitOps' = << >>
  /\ UNCHANGED <<clones, heads>>

\* resolveGitSource fetching whenever the cache path holds a working copy
ResolveGitSource_AlwaysFetches ==
  /\ gitPc \in {"idle", "done", "failed"}
  /\ \E url \in GitUrls,
        tag \in {"", "latest", "v1"}, refresh \in BOOLEAN, subDir \in {"", "sub"} :
       LET cachePath == CachePaths[url] IN
       /\ resolving' = [Url |-> url, Tag |-> tag, Refresh |-> refresh,
                         SubDir |-> subDir, CachePath |-> cachePath[1],
                         Cloned |-> cachePath[1] \in clones]
       /\ IF cachePath[2] # ""
          THEN gitPc' = "failed" /\ resolved' = <<"error", cachePath[2]>>
          ELSE /\ resolved' = <<"none">>
               /\ gitPc' = IF cachePath[1] \notin clones THEN "clone" ELSE "fetch"
  /\ gitOps' = << >>
  /\ UNCHANGED <<clones, heads>>

\* resolveGitSource is entered: gitCachePath, and os.Stat of <cachePath>/.git
ResolveGitSource ==
  /\ gitPc \in {"idle", "done", "failed"}
  /\ \E url \in GitUrls,
        tag \in {"", "latest", "v1"}, refresh \in BOOLEAN, subDir \in {"", "sub"} :
       LET cachePath == CachePaths[url] IN
       /\ resolving' = [Url |-> url, Tag |-> tag, Refresh |-> refresh,
                         SubDir |-> subDir, CachePath |-> cachePath[1],
                         Cloned |-> cachePath[1] \in clones]
       /\ IF cachePath[2] # ""
          THEN gitPc' = "failed" /\ resolved' = <<"error", cachePath[2]>>
          ELSE /\ resolved' = <<"none">>
               /\ gitPc' = IF cachePath[1] \notin clones THEN "clone"
                            ELSE IF refresh THEN "fetch" ELSE "synced"
  /\ gitOps' = << >>
  /\ UNCHANGED <<clones, heads>>

\* os.MkdirAll of the cache path's parent and gitClone
GitClone ==
  /\ gitPc = "clone"
  /\ \/ /\ gitPc' = "failed"
        /\ resolved' = <<"error", "create cache dir: permission denied">>
        /\ UNCHANGED <<gitOps, clones, heads>>
     \/ /\ gitOps' = Append(gitOps, <<"clone", resolving.Url, resolving.CachePath>>)
        /\ \/ /\ gitPc' = "synced"
              /\ clones' = clones \cup {resolving.CachePath}
              /\ heads' = SetHead(heads, resolving.CachePath, "HEAD")
              /\ UNCHANGED resolved
           \/ /\ gitPc' = "failed"
              /\ resolved' = <<"error", "git clone: exit status 128: ">>
              /\ UNCHANGED <<clones, heads>>
  /\ UNCHANGED resolving

\* gitFetch
GitFetch ==
  /\ gitPc = "fetch"
  /\ gitOps' = Append(gitOps, <<"fetch", resolving.CachePath>>)
  /\ \/ gitPc' = "reset" /\ UNCHANGED resolved
     \/ gitPc' = "failed" /\ resolved' = <<"error", "git fetch: exit status 128: ">>
  /\ UNCHANGED <<resolving, clones, heads>>

\* gitDefaultBranch, which falls back to master, and gitResetHard
GitResetHard ==
  /\ gitPc = "reset"
  /\ \E branch \in {"main", "master", "develop"} :
       /\ gitOps' = Append(gitOps, <<"reset", resolving.CachePath, "origin/" \o branch>>)
       /\ \/ /\ gitPc' = "synced"
             /\ heads' = SetHead(heads, resolving.CachePath, "origin/" \o branch)
             /\ UNCHANGED resolved
          \/ /\ gitPc' = "failed"
             /\ resolved' = <<"error", "git reset: exit status 128: ">>
             /\ UNCHANGED heads
  /\ UNCHANGED <<resolving, clones>>

\* the checkout of any tag that is not empty
GitCheckout_LatestToo ==
  /\ gitPc = "synced"
  /\ IF resolving.Tag # ""
     THEN /\ gitOps' = Append(gitOps, <<"checkout", resolving.CachePath, resolving.Tag>>)
          /\ \/ /\ gitPc' = "done"
                /\ resolved' = <<"ok", resolving.CachePath>>
                /\ heads' = SetHead(heads, resolving.CachePath, resolving.Tag)
             \/ /\ gitPc' = "failed"
                /\ resolved' = <<"error", "git checkout " \o resolving.Tag
                                            \o ": exit status 1: ">>
                /\ UNCHANGED heads
     ELSE /\ gitPc' = "done"
          /\ resolved' = <<"ok", resolving.CachePath>>
          /\ UNCHANGED <<gitOps, heads>>
  /\ UNCHANGED <<resolving, clones>>

\* the checkout of the tag, if any, and the return of the path
GitCheckout ==
  /\ gitPc = "synced"
  /\ IF resolving.Tag # "" /\ resolving.Tag # "latest"
     THEN /\ gitOps' = Append(gitOps, <<"checkout", resolving.CachePath, resolving.Tag>>)
          /\ \/ /\ gitPc' = "done"
                /\ resolved' =
                     <<"ok", IF resolving.SubDir # ""
                             THEN resolving.CachePath \o "/" \o resolving.SubDir
                             ELSE resolving.CachePath>>
                /\ heads' = SetHead(heads, resolving.CachePath, resolving.Tag)
             \/ /\ gitPc' = "failed"
                /\ resolved' = <<"error", "git checkout " \o resolving.Tag
                                            \o ": exit status 1: ">>
                /\ UNCHANGED heads
     ELSE /\ gitPc' = "done"
          /\ resolved' =
               <<"ok", IF resolving.SubDir # ""
                       THEN resolving.CachePath \o "/" \o resolving.SubDir
                       ELSE resolving.CachePath>>
          /\ UNCHANGED <<gitOps, heads>>
  /\ UNCHANGED <<resolving, clones>>


(***************************************************************************)
(* A second kael process running resolveGitSource on the same cache root.  *)
(* Its os.Stat and its git commands are steps of their own, so they fall   *)
(* between the steps of the first process as the scheduler has it.         *)
(***************************************************************************)
NoPeer == [Pc |-> "idle", Url |-> "", Tag |-> "", Refresh |-> FALSE,
           CachePath |-> "", Cloned |-> FALSE, Ops |-> << >>]

\* the second process is not resolving
PeerIdle == peer = NoPeer

\* the second process enters resolveGitSource: gitCachePath and os.Stat
PeerResolve ==
  /\ peer.Pc \in {"idle", "done", "failed"}
  /\ \E url \in {"git@github.com:org/repo.git"}, tag \in {"", "v1"},
        refresh \in BOOLEAN :
       LET cachePath == CachePaths[url] IN
       peer' = [Pc |-> IF cachePath[2] # "" THEN "failed"
                       ELSE IF cachePath[1] \notin clones THEN "clone"
                       ELSE IF refresh THEN "fetch" ELSE "synced",
                Url |-> url, Tag |-> tag, Refresh |-> refresh,
                CachePath |-> cachePath[1], Cloned |-> cachePath[1] \in clones,
                Ops |-> << >>]
  /\ UNCHANGED gitVars

\* the next git command of the second process, which succeeds or fails
PeerGit ==
  /\ peer.Pc \in {"clone", "fetch", "reset", "synced"}
  /\ \E ok \in BOOLEAN, branch \in {"main", "master"} :
       LET op == CASE peer.Pc = "clone" -> <<"clone", peer.Url, peer.CachePath>>
                   [] peer.Pc = "fetch" -> <<"fetch", peer.CachePath>>
                   [] peer.Pc = "reset" -> <<"reset", peer.CachePath, "origin/" \o branch>>
                   [] OTHER -> <<"checkout", peer.CachePath, peer.Tag>>
           skipped == peer.Pc = "synced" /\ peer.Tag \in {"", "latest"}
           next == CASE ~ok -> "failed"
                     [] peer.Pc = "clone" -> "synced"
                     [] peer.Pc = "fetch" -> "reset"
                     [] peer.Pc = "reset" -> "synced"
                     [] OTHER -> "done"
       IN  /\ skipped => ok
           /\ peer' = [peer EXCEPT !.Pc = next,
                                   !.Ops = IF skipped THEN @ ELSE Append(@, op)]
           /\ clones' = IF ok /\ peer.Pc = "clone" THEN clones \cup {peer.CachePath}
                        ELSE clones
           /\ heads' = IF ~ok \/ skipped \/ peer.Pc = "fetch" THEN heads
                       ELSE SetHead(heads, peer.CachePath,
                                    CASE peer.Pc = "clone" -> "HEAD"
                                      [] peer.Pc = "reset" -> op[3]
                                      [] OTHER -> peer.Tag)
  /\ UNCHANGED <<gitPc, resolving, gitOps, resolved>>
(***************************************************************************)
(* One Engine and its Registry.  An entry of the Registry is a tool        *)
(* function with what defined it: for a tool of the kit its dotted path    *)
(* and its file, for a tool a script defines a number and the source given.*)
(***************************************************************************)
\* no Engine yet
EngineIdle ==
  /\ loaded = FALSE
  /\ registry = {}
  /\ defined = 0
  /\ lastApi = <<"", <<"", "">>, <<"", "">>>>
  /\ kitGlobal = <<"nil">>
  /\ refreshFlag = FALSE
  /\ lastRun = <<"none">>

\* the RunOptions of a call with Refresh false whatever the Engine's is
runOptions_NoRefresh(config, engineRefresh) == <<"ro", config, FALSE>>

\* ro of the closure defineTool makes: the fields of the config it captured
\* and the Engine's Refresh as it is when the closure runs
runOptions(config, engineRefresh) == <<"ro", config, engineRefresh>>

\* the kits an Engine is made on: two that kit init and kit add made, and one
\* whose init.lua returns nothing
EngineKits == {KitOps, KitOpsMisc, [p \in {"init.lua"} |-> "local M = {}\n"]}

\* the tool paths ExecTool is called with
ToolPaths ==
  {"ops.download", "ops.missing", "ops", "download", "nope.download",
   "ops.download.x", "ops.nope.x"}

\* NewEngine returns an Engine: the load of the kit has run define_tool for
\* every tool file, each call adding an entry, and kit is what init returned
EngineNew ==
  /\ ~loaded
  /\ \E fs \in EngineKits :
       LET kit == NewEngine(fs) IN
       /\ ~IsError(kit)
       /\ kitGlobal' = kit
       /\ registry' = {<<p, FileIn(ParentOf(p), LastPart(p) \o ".lua")>> :
                         p \in ToolPathsOf(ListTools(kit), "")}
  /\ loaded' = TRUE
  /\ lastApi' = <<"NewEngine", <<"require", "init">>, <<"", "">>>>
  /\ UNCHANGED <<defined, refreshFlag, lastRun>>

\* e.Refresh = refresh, as runScript, execTool and startRepl do once
\* NewEngine has returned
SetRefresh ==
  /\ loaded
  /\ \E refresh \in BOOLEAN :
       /\ refreshFlag' = refresh
       /\ lastApi' = <<"Refresh", <<"set", ToString(refresh)>>, <<"", "">>>>
  /\ lastRun' = <<"none">>
  /\ UNCHANGED <<loaded, registry, defined, kitGlobal>>

\* ExecTool emptying the Registry
ExecTool_ClearsRegistry ==
  /\ loaded
  /\ \E toolPath \in ToolPaths :
       lastApi' = <<"ExecTool", <<"call", toolPath>>,
                    resolveSegments(kitGlobal, Split(toolPath, "."), toolPath)>>
  /\ registry' = {}
  /\ UNCHANGED <<loaded, defined, kitGlobal, refreshFlag, lastRun>>

\* ExecTool: the tool function is looked up in the kit global and called;
\* the result is the error of the lookup, or the function called and whether
\* the call raised, which it does before the Runner is called (validation,
\* input adapter) or after
ExecTool ==
  /\ loaded
  /\ \E toolPath \in ToolPaths :
       LET found == resolveSegments(kitGlobal, Split(toolPath, "."), toolPath) IN
       \E failed \in BOOLEAN, ran \in BOOLEAN :
         /\ ~failed => ran
         /\ found[1] = "error" => ~failed /\ ran
         /\ lastApi' = <<"ExecTool", <<"call", toolPath>>,
                         IF found[1] = "error" THEN found
                         ELSE IF failed
                         THEN <<"error", "tool execution failed: " \o found[2]>>
                         ELSE <<"called", found[2]>>>>
         /\ lastRun' = IF found[1] = "error" \/ ~ran THEN <<"none">>
                        ELSE runOptions(<<toolPath, found[2]>>, refreshFlag)
  /\ UNCHANGED <<loaded, registry, defined, kitGlobal, refreshFlag>>

\* RunFile, RunString and RunStringResult run a chunk: one that calls
\* tools.define_tool, one that calls a tool of the kit, or one that does
\* neither; defineTool adds the function it makes to the Registry
RunString ==
  /\ loaded
  /\ \E api \in {"RunFile", "RunString", "RunStringResult"},
        stmt \in {<<"define", "/scripts">>, <<"define", "git@github.com:org/repo.git">>,
                  <<"call", "ops.download">>, <<"assign", "x">>} :
       /\ lastApi' = <<api, stmt, <<"", "">>>>
       /\ \E ran \in BOOLEAN :
            lastRun' =
              IF stmt[1] = "call" /\ ran
                   /\ resolveSegments(kitGlobal, Split(stmt[2], "."), stmt[2])[1] = "fn"
              THEN runOptions(<<stmt[2], resolveSegments(kitGlobal, Split(stmt[2], "."),
                                                         stmt[2])[2]>>, refreshFlag)
              ELSE <<"none">>
       /\ IF stmt[1] = "define"
          THEN /\ defined < MaxDefined
               /\ defined' = defined + 1
               /\ registry' = registry \cup {<<"function " \o ToString(defined + 1), stmt[2]>>}
          ELSE UNCHANGED <<registry, defined>>
  /\ UNCHANGED <<loaded, kitGlobal, refreshFlag>>


(***************************************************************************)
(* ListTools on a kit global of any shape.  A table of the Lua state is a  *)
(* set of <<key, value>>, a value a registered tool function, another      *)
(* function, or a reference to a table, which may be the table itself or   *)
(* one above it: a hand-written init.lua can say M.up = M.                 *)
(***************************************************************************)
\* most frames of walkTable the goroutine stack holds
MaxDepth == 4

\* the values of a field
FieldValues == {<<"tool", "t.lua">>, <<"func", "">>, <<"ref", 1>>, <<"ref", 2>>}

\* the tables: each of the keys ops and up absent or with one of the values
LuaTables ==
  {{<<k, f[k]>> : k \in DOMAIN f} : f \in MapsOver({"ops", "up"}, FieldValues)}

\* the keys of a table
KeysOf(tbl) == {e[1] : e \in tbl}

\* L.GetField(tbl, key) of a key the table has
FieldOf(tbl, key) == (CHOOSE e \in tbl : e[1] = key)[2]

\* ListTools has not been called
WalkIdle ==
  /\ heap = <<{}>>
  /\ walkPc = "idle"
  /\ walkStack = << >>
  /\ walkFound = {}

\* a Lua state of two tables, the first the kit global
WalkInit ==
  /\ heap \in {<<t1, t2>> : t1 \in LuaTables, t2 \in LuaTables}
  /\ walkPc = "idle"
  /\ walkStack = << >>
  /\ walkFound = {}

\* ListTools: walkTable is called on the kit global
ListToolsCall ==
  /\ walkPc = "idle"
  /\ walkPc' = "walking"
  /\ walkStack' = <<<<1, KeysOf(heap[1]), "">>>>
  /\ walkFound' = {}
  /\ UNCHANGED heap

\* one step of walkTable in the frame on top of the stack: the callback of
\* tbl.ForEach for a key not yet seen, in any order, or the return of the
\* node; the call for a table value is a new frame, and the runtime ends the
\* process when the stack is full
WalkTableStep ==
  /\ walkPc = "walking"
  /\ LET depth == Len(walkStack)
         top == walkStack[depth]
     IN  IF top[2] = {}
         THEN /\ walkStack' = SubSeq(walkStack, 1, depth - 1)
              /\ walkPc' = IF depth = 1 THEN "returned" ELSE "walking"
              /\ UNCHANGED walkFound
         ELSE \E key \in top[2] :
                LET v == FieldOf(heap[top[1]], key)
                    rest == [walkStack EXCEPT ![depth][2] = @ \ {key}]
                IN  CASE v[1] = "tool" ->
                           /\ walkFound' = walkFound \cup {top[3] \o key}
                           /\ walkStack' = rest
                           /\ UNCHANGED walkPc
                      [] v[1] = "func" ->
                           /\ walkStack' = rest
                           /\ UNCHANGED <<walkPc, walkFound>>
                      [] OTHER ->
                           IF depth = MaxDepth
                           THEN /\ walkPc' = "overflow"
                                /\ UNCHANGED <<walkStack, walkFound>>
                           ELSE /\ walkStack' =
                                     Append(rest, <<v[2], KeysOf(heap[v[2]]),
                                                    top[3] \o key \o ".">>)
                                /\ UNCHANGED <<walkPc, walkFound>>
  /\ UNCHANGED heap

(***************************************************************************)
(* ensureImage on the images of one container runtime.                     *)
(***************************************************************************)
\* most calls of ensureImage and removals of an image
MaxRuns == 3

\* strings.ToLower of one character
LowerOf(c) ==
  LET upper == "ABCDEFGHIJKLMNOPQRSTUVWXYZ"
      lower == "abcdefghijklmnopqrstuvwxyz"
      i == Index(upper, c)
  IN  IF i = 0 THEN c ELSE Sub(lower, i, i)

\* strings.ToLower
ToLower(s) == Join([i \in 1..Len(s) |-> LowerOf(Sub(s, i, i))], "")

RECURSIVE TrimLeft(_, _)
\* strings.TrimLeft for a cutset of one character
TrimLeft(s, c) == IF HasPrefix(s, c) THEN TrimLeft(Sub(s, 2, Len(s)), c) ELSE s

\* imageName
imageName(sourcePath, entrypoint, tag) ==
  LET lowered == IF entrypoint # "" THEN ToLower(sourcePath) \o "/" \o ToLower(entrypoint)
                 ELSE ToLower(sourcePath)
      replaced == Join([i \in 1..Len(lowered) |->
                          IF Sub(lowered, i, i) \in {"/", ".", ":", "@"} THEN "-"
                          ELSE Sub(lowered, i, i)], "")
  IN  "kael-" \o TrimLeft(replaced, "-") \o ":" \o (IF tag = "" THEN "latest" ELSE tag)

\* the (resolved source path, entrypoint, tag) of the Run Requests
Triples ==
  {<<"/srv/my.tool", "run.sh", "">>, <<"/srv/my-tool", "run.sh", "">>,
   <<"/srv/My.Tool", "", "v1">>}

\* the image name ensureImage computes for each of them
ImageNames == [t \in Triples |-> imageName(t[1], t[2], IF t[3] = "" THEN "latest" ELSE t[3])]

\* no image, ensureImage not yet called
ImageIdle ==
  /\ images = {}
  /\ imageLog = << >>

\* ensureImage building whether or not the image is there
ensureImage_AlwaysBuilds(refresh, exists) == TRUE

\* ensureImage, its test: whether it goes on to build
ensureImage(refresh, exists) == ~(~refresh /\ exists)

\* one call of ensureImage: imageExists is not called when refresh is set,
\* and answers false when the runtime's listing fails; writing the
\* Dockerfile and the build each succeed or fail
EnsureImage ==
  /\ Len(imageLog) < MaxRuns
  /\ \E t \in Triples, refresh \in BOOLEAN, listing \in {"not run", "ok", "failed"},
        outcome \in {"built", "build failed", "setup failed"} :
       LET image == ImageNames[t]
           exists == listing = "ok" /\ image \in images
           listed == listing = "ok"
       IN  /\ refresh <=> listing = "not run"
           /\ IF ensureImage(refresh, exists)
              THEN /\ imageLog' =
                        Append(imageLog, <<"run", t, image, refresh, listed, outcome>>)
                   /\ images' = IF outcome = "built" THEN images \cup {image} ELSE images
              ELSE /\ outcome = "built"
                   /\ imageLog' =
                        Append(imageLog, <<"run", t, image, refresh, listed, "reused">>)
                   /\ UNCHANGED images

\* somebody removes an image (docker rmi)
RemoveImage ==
  /\ Len(imageLog) < MaxRuns
  /\ \E image \in images :
       /\ images' = images \ {image}
       /\ imageLog' = Append(imageLog, <<"rmi", image>>)

(***************************************************************************)
(* The loop of startRepl, one Readline at a time.                          *)
(***************************************************************************)
\* most lines the buffer accumulates
MaxBufLines == 3

\* what the user types at a prompt
ReplLines ==
  {"", "  ", "exit", " exit", "quit", "help", "x = 1", "f()", "if x then",
   "while x do", "end", "x = = 1"}

RECURSIVE TrimSpace(_)
\* strings.TrimSpace, for spaces
TrimSpace(s) ==
  IF HasPrefix(s, " ") THEN TrimSpace(Sub(s, 2, Len(s)))
  ELSE IF HasSuffix(s, " ") THEN TrimSpace(Sub(s, 1, Len(s) - 1))
  ELSE s

RECURSIVE scanLines(_, _, _, _)
\* the Lua compiler on the lines left of a chunk, depth blocks being open and
\* name telling that the line before was a name on its own: "ok", "syntax
\* error", or "incomplete" for an error at the end of the input; atEof is
\* whether the error after a name on its own is reported at the end
scanLines(lines, depth, name, atEof) ==
  IF lines = << >>
  THEN IF depth > 0 THEN "incomplete"
       ELSE IF name THEN (IF atEof THEN "incomplete" ELSE "syntax error")
       ELSE "ok"
  ELSE LET line == Head(lines) IN
       CASE line = "" -> scanLines(Tail(lines), depth, name, atEof)
         [] name \/ line = "x = = 1" \/ (line = "end" /\ depth = 0) -> "syntax error"
         [] line = "end" -> scanLines(Tail(lines), depth - 1, FALSE, atEof)
         [] line \in {"if x then", "while x do"} -> scanLines(Tail(lines), depth + 1, FALSE, atEof)
         [] line \in {"x = 1", "f()"} -> scanLines(Tail(lines), depth, FALSE, atEof)
         [] OTHER -> scanLines(Tail(lines), depth, TRUE, atEof)

\* e.CheckSyntax(code) with isIncomplete of its error
CheckSyntax(code, atEof) == scanLines(Split(code, "\n"), 0, FALSE, atEof)

\* countIndent: the openers less the closers among the words of code, 0 at
\* least
countIndent(code) ==
  LET lines == Split(code, "\n")
      depth == Cardinality({i \in DOMAIN lines : lines[i] \in {"if x then", "while x do"}})
                 - Cardinality({i \in DOMAIN lines : lines[i] = "end"})
  IN  IF depth < 0 THEN 0 ELSE depth

\* the REPL is not running
ReplIdle ==
  /\ replPc = "off"
  /\ replBuf = ""
  /\ replPrompt = <<"main", 0>>
  /\ replIn = <<"none">>
  /\ replOut = ""

\* startRepl has made the readline with the main prompt and an empty buffer
ReplInit ==
  /\ replPc = "reading"
  /\ replBuf = ""
  /\ replPrompt = <<"main", 0>>
  /\ replIn = <<"none">>
  /\ replOut = ""

\* the body of the loop treating exit, quit and help as commands whatever
\* the buffer holds
replStep_CommandsAnywhere(buf, prompt, ev, atEof, runErr) ==
  CASE ev[1] = "interrupt" ->
         IF buf # "" THEN <<"reading", "", <<"main", 0>>, "interrupt">>
         ELSE <<"reading", buf, prompt, "interrupt">>
    [] ev[1] = "eof" -> <<"exited", buf, prompt, "eof">>
    [] OTHER ->
         LET line == TrimSpace(ev[2])
             code == IF buf # "" THEN buf \o "\n" \o line ELSE line
             syntax == CheckSyntax(code, atEof)
         IN  IF line = "" /\ buf = "" THEN <<"reading", buf, prompt, "skipped">>
             ELSE IF line \in {"exit", "quit"} THEN <<"exited", buf, prompt, "exit">>
             ELSE IF line = "help" THEN <<"reading", buf, prompt, "help">>
             ELSE IF syntax = "incomplete"
             THEN <<"reading", code, <<"cont", countIndent(code)>>, "incomplete">>
             ELSE IF syntax = "syntax error"
             THEN <<"reading", "", <<"main", 0>>, "syntax error">>
             ELSE <<"reading", "", <<"main", 0>>,
                    IF runErr THEN "runtime error"
                    ELSE IF code = "f()" THEN "printed" ELSE "ran">>

\* the body of the loop of startRepl for one event of Readline: <<whether
\* the loop goes on, the buffer, the prompt, what happened>>
replStep(buf, prompt, ev, atEof, runErr) ==
  CASE ev[1] = "interrupt" ->
         IF buf # "" THEN <<"reading", "", <<"main", 0>>, "interrupt">>
         ELSE <<"reading", buf, prompt, "interrupt">>
    [] ev[1] = "eof" -> <<"exited", buf, prompt, "eof">>
    [] OTHER ->
         LET line == TrimSpace(ev[2])
             code == IF buf # "" THEN buf \o "\n" \o line ELSE line
             syntax == CheckSyntax(code, atEof)
         IN  IF line = "" /\ buf = "" THEN <<"reading", buf, prompt, "skipped">>
             ELSE IF buf = "" /\ line \in {"exit", "quit"}
             THEN <<"exited", buf, prompt, "exit">>
             ELSE IF buf = "" /\ line = "help" THEN <<"reading", buf, prompt, "help">>
             ELSE IF syntax = "incomplete"
             THEN <<"reading", code, <<"cont", countIndent(code)>>, "incomplete">>
             ELSE IF syntax = "syntax error"
             THEN <<"reading", "", <<"main", 0>>, "syntax error">>
             ELSE <<"reading", "", <<"main", 0>>,
                    IF runErr THEN "runtime error"
                    ELSE IF code = "f()" THEN "printed" ELSE "ran">>

\* rl.Readline returns a line, an interrupt or the end of the input, and the
\* body of the loop runs
ReplReadline ==
  /\ replPc = "reading"
  /\ \E ev \in {<<"interrupt">>, <<"eof">>} \cup {<<"line", l>> : l \in ReplLines},
        atEof \in BOOLEAN, runErr \in BOOLEAN :
       LET r == replStep(replBuf, replPrompt, ev, atEof, runErr) IN
       /\ Len(Split(r[2], "\n")) <= MaxBufLines
       /\ replPc' = r[1]
       /\ replBuf' = r[2]
       /\ replPrompt' = r[3]
       /\ replIn' = ev
       /\ replOut' = r[4]
(***************************************************************************)
(* Specifications.                                                         *)
(***************************************************************************)
BridgeStart == BridgeInit /\ CallIdle /\ ExecIdle /\ RunIdle /\ KitIdle /\ WireIdle /\ ParseIdle /\ GitIdle /\ EngineIdle /\ PeerIdle /\ WalkIdle /\ ImageIdle /\ ReplIdle

BridgeNext == RoundTrip /\ UNCHANGED <<callVars, execVars, runVars, kitVars, wireVars, parseVars, gitVars, engineVars, peerVars, walkVars, imageVars, replVars>>

SpecBridge == BridgeStart /\ [][BridgeNext]_vars

CallStart == CallIdle /\ BridgeIdle /\ ExecIdle /\ RunIdle /\ KitIdle /\ WireIdle /\ ParseIdle /\ GitIdle /\ EngineIdle /\ PeerIdle /\ WalkIdle /\ ImageIdle /\ ReplIdle

CallNext ==
  \/ Call /\ UNCHANGED <<bridgeVars, execVars, runVars, kitVars, wireVars, parseVars, gitVars, engineVars, peerVars, walkVars, imageVars, replVars>>
  \/ Validate /\ UNCHANGED <<bridgeVars, execVars, runVars, kitVars, wireVars, parseVars, gitVars, engineVars, peerVars, walkVars, imageVars, replVars>>
  \/ AdaptInput /\ UNCHANGED <<bridgeVars, execVars, runVars, kitVars, wireVars, parseVars, gitVars, engineVars, peerVars, walkVars, imageVars, replVars>>
  \/ RunnerRunOk /\ UNCHANGED <<bridgeVars, execVars, runVars, kitVars, wireVars, parseVars, gitVars, engineVars, peerVars, walkVars, imageVars, replVars>>
  \/ RunnerRunErr /\ UNCHANGED <<bridgeVars, execVars, runVars, kitVars, wireVars, parseVars, gitVars, engineVars, peerVars, walkVars, imageVars, replVars>>
  \/ AdaptOutput /\ UNCHANGED <<bridgeVars, execVars, runVars, kitVars, wireVars, parseVars, gitVars, engineVars, peerVars, walkVars, imageVars, replVars>>
  \/ Return /\ UNCHANGED <<bridgeVars, execVars, runVars, kitVars, wireVars, parseVars, gitVars, engineVars, peerVars, walkVars, imageVars, replVars>>

SpecCall == CallStart /\ [][CallNext]_vars

ExecStart == ExecInit /\ BridgeIdle /\ CallIdle /\ RunIdle /\ KitIdle /\ WireIdle /\ ParseIdle /\ GitIdle /\ EngineIdle /\ PeerIdle /\ WalkIdle /\ ImageIdle /\ ReplIdle

ExecNext ==
  \/ ExecBuildInput /\ UNCHANGED <<bridgeVars, callVars, runVars, kitVars, wireVars, parseVars, gitVars, engineVars, peerVars, walkVars, imageVars, replVars>>
  \/ ExecInvoke /\ UNCHANGED <<bridgeVars, callVars, runVars, kitVars, wireVars, parseVars, gitVars, engineVars, peerVars, walkVars, imageVars, replVars>>

SpecExec == ExecStart /\ [][ExecNext]_vars

RunStart == RunIdle /\ BridgeIdle /\ CallIdle /\ ExecIdle /\ KitIdle /\ WireIdle /\ ParseIdle /\ GitIdle /\ EngineIdle /\ PeerIdle /\ WalkIdle /\ ImageIdle /\ ReplIdle

RunNext ==
  \/ StartRun /\ UNCHANGED <<bridgeVars, callVars, execVars, kitVars, wireVars, parseVars, gitVars, engineVars, peerVars, walkVars, imageVars, replVars>>
  \/ Tick /\ UNCHANGED <<bridgeVars, callVars, execVars, kitVars, wireVars, parseVars, gitVars, engineVars, peerVars, walkVars, imageVars, replVars>>
  \/ ProcessExits /\ UNCHANGED <<bridgeVars, callVars, execVars, kitVars, wireVars, parseVars, gitVars, engineVars, peerVars, walkVars, imageVars, replVars>>
  \/ DeadlineExpires /\ UNCHANGED <<bridgeVars, callVars, execVars, kitVars, wireVars, parseVars, gitVars, engineVars, peerVars, walkVars, imageVars, replVars>>
  \/ ContainerExits /\ UNCHANGED <<bridgeVars, callVars, execVars, kitVars, wireVars, parseVars, gitVars, engineVars, peerVars, walkVars, imageVars, replVars>>
  \/ CmdRunReturns /\ UNCHANGED <<bridgeVars, callVars, execVars, kitVars, wireVars, parseVars, gitVars, engineVars, peerVars, walkVars, imageVars, replVars>>
  \/ RunReturns /\ UNCHANGED <<bridgeVars, callVars, execVars, kitVars, wireVars, parseVars, gitVars, engineVars, peerVars, walkVars, imageVars, replVars>>

SpecRun == RunStart /\ [][RunNext]_vars

KitStart == KitInit /\ WireIdle /\ BridgeIdle /\ CallIdle /\ ExecIdle /\ RunIdle /\ ParseIdle /\ GitIdle /\ EngineIdle /\ PeerIdle /\ WalkIdle /\ ImageIdle /\ ReplIdle

KitNext ==
  \/ KitAdd /\ UNCHANGED <<bridgeVars, callVars, execVars, runVars, wireVars, parseVars, gitVars, engineVars, peerVars, walkVars, imageVars, replVars>>
  \/ KitRemove /\ UNCHANGED <<bridgeVars, callVars, execVars, runVars, wireVars, parseVars, gitVars, engineVars, peerVars, walkVars, imageVars, replVars>>
  \/ KitInitNamespace /\ UNCHANGED <<bridgeVars, callVars, execVars, runVars, wireVars, parseVars, gitVars, engineVars, peerVars, walkVars, imageVars, replVars>>

SpecKit == KitStart /\ [][KitNext]_vars

WireStart == WireInit /\ BridgeIdle /\ CallIdle /\ ExecIdle /\ RunIdle /\ ParseIdle /\ GitIdle /\ EngineIdle /\ PeerIdle /\ WalkIdle /\ ImageIdle /\ ReplIdle

WireNext == WireNamespace /\ UNCHANGED <<bridgeVars, callVars, execVars, runVars, parseVars, gitVars, engineVars, peerVars, walkVars, imageVars, replVars>>

SpecWire == WireStart /\ [][WireNext]_vars

ParseStart ==
  ParseInit /\ BridgeIdle /\ CallIdle /\ ExecIdle /\ RunIdle /\ KitIdle /\ WireIdle
    /\ GitIdle /\ EngineIdle /\ PeerIdle /\ WalkIdle /\ ImageIdle /\ ReplIdle

ParseNext ==
  ParseSource /\ UNCHANGED <<bridgeVars, callVars, execVars, runVars, kitVars, wireVars, gitVars, engineVars, peerVars, walkVars, imageVars, replVars>>

SpecParse == ParseStart /\ [][ParseNext]_vars

InitStart ==
  InitKitInit /\ WireIdle /\ BridgeIdle /\ CallIdle /\ ExecIdle /\ RunIdle /\ ParseIdle /\ GitIdle /\ EngineIdle /\ PeerIdle /\ WalkIdle /\ ImageIdle /\ ReplIdle

InitNext ==
  KitInitDotted
    /\ UNCHANGED <<bridgeVars, callVars, execVars, runVars, wireVars, parseVars, gitVars, engineVars, peerVars, walkVars, imageVars, replVars>>

SpecInit == InitStart /\ [][InitNext]_vars

GitStart ==
  GitIdle /\ EngineIdle /\ KitIdle /\ WireIdle /\ BridgeIdle /\ CallIdle /\ ExecIdle /\ RunIdle
    /\ ParseIdle /\ PeerIdle /\ WalkIdle /\ ImageIdle /\ ReplIdle

GitNext ==
  \/ ResolveGitSource
       /\ UNCHANGED <<bridgeVars, callVars, execVars, runVars, kitVars, wireVars,
                      parseVars, engineVars, peerVars, walkVars, imageVars, replVars>>
  \/ GitClone
       /\ UNCHANGED <<bridgeVars, callVars, execVars, runVars, kitVars, wireVars,
                      parseVars, engineVars, peerVars, walkVars, imageVars, replVars>>
  \/ GitFetch
       /\ UNCHANGED <<bridgeVars, callVars, execVars, runVars, kitVars, wireVars,
                      parseVars, engineVars, peerVars, walkVars, imageVars, replVars>>
  \/ GitResetHard
       /\ UNCHANGED <<bridgeVars, callVars, execVars, runVars, kitVars, wireVars,
                      parseVars, engineVars, peerVars, walkVars, imageVars, replVars>>
  \/ GitCheckout
       /\ UNCHANGED <<bridgeVars, callVars, execVars, runVars, kitVars, wireVars,
                      parseVars, engineVars, peerVars, walkVars, imageVars, replVars>>

SpecGit == GitStart /\ [][GitNext]_vars

EngineStart ==
  EngineIdle /\ GitIdle /\ KitIdle /\ WireIdle /\ BridgeIdle /\ CallIdle /\ ExecIdle
    /\ RunIdle /\ ParseIdle /\ PeerIdle /\ WalkIdle /\ ImageIdle /\ ReplIdle

EngineNext ==
  \/ EngineNew
       /\ UNCHANGED <<bridgeVars, callVars, execVars, runVars, kitVars, wireVars,
                      parseVars, gitVars, peerVars, walkVars, imageVars, replVars>>
  \/ RunString
       /\ UNCHANGED <<bridgeVars, callVars, execVars, runVars, kitVars, wireVars,
                      parseVars, gitVars, peerVars, walkVars, imageVars, replVars>>
  \/ ExecTool
       /\ UNCHANGED <<bridgeVars, callVars, execVars, runVars, kitVars, wireVars,
                      parseVars, gitVars, peerVars, walkVars, imageVars, replVars>>
  \/ SetRefresh
       /\ UNCHANGED <<bridgeVars, callVars, execVars, runVars, kitVars, wireVars,
                      parseVars, gitVars, peerVars, walkVars, imageVars, replVars>>

SpecEngine == EngineStart /\ [][EngineNext]_vars

EditedStart ==
  KitEdited /\ WireIdle /\ BridgeIdle /\ CallIdle /\ ExecIdle /\ RunIdle /\ ParseIdle
    /\ GitIdle /\ EngineIdle /\ PeerIdle /\ WalkIdle /\ ImageIdle /\ ReplIdle

EditedNext ==
  \/ KitAdd
       /\ UNCHANGED <<bridgeVars, callVars, execVars, runVars, wireVars, parseVars,
                      gitVars, engineVars, peerVars, walkVars, imageVars, replVars>>
  \/ KitRemove
       /\ UNCHANGED <<bridgeVars, callVars, execVars, runVars, wireVars, parseVars,
                      gitVars, engineVars, peerVars, walkVars, imageVars, replVars>>

SpecEdited == EditedStart /\ [][EditedNext]_vars

UnwireStart == WireInit /\ BridgeIdle /\ CallIdle /\ ExecIdle /\ RunIdle /\ ParseIdle /\ GitIdle /\ EngineIdle /\ PeerIdle /\ WalkIdle /\ ImageIdle /\ ReplIdle

UnwireNext ==
  \/ WireNamespace /\ UNCHANGED <<bridgeVars, callVars, execVars, runVars, parseVars, gitVars, engineVars, peerVars, walkVars, imageVars, replVars>>
  \/ UnwireNamespace /\ UNCHANGED <<bridgeVars, callVars, execVars, runVars, parseVars, gitVars, engineVars, peerVars, walkVars, imageVars, replVars>>

SpecUnwire == UnwireStart /\ [][UnwireNext]_vars

RaceStart ==
  GitIdle /\ PeerIdle /\ EngineIdle /\ WalkIdle /\ ImageIdle /\ ReplIdle /\ KitIdle /\ WireIdle /\ BridgeIdle /\ CallIdle
    /\ ExecIdle /\ RunIdle /\ ParseIdle

RaceNext ==
  \/ ResolveGitSource
       /\ UNCHANGED <<bridgeVars, callVars, execVars, runVars, kitVars, wireVars,
                      parseVars, engineVars, peerVars, walkVars, imageVars, replVars>>
  \/ GitClone
       /\ UNCHANGED <<bridgeVars, callVars, execVars, runVars, kitVars, wireVars,
                      parseVars, engineVars, peerVars, walkVars, imageVars, replVars>>
  \/ GitFetch
       /\ UNCHANGED <<bridgeVars, callVars, execVars, runVars, kitVars, wireVars,
                      parseVars, engineVars, peerVars, walkVars, imageVars, replVars>>
  \/ GitResetHard
       /\ UNCHANGED <<bridgeVars, callVars, execVars, runVars, kitVars, wireVars,
                      parseVars, engineVars, peerVars, walkVars, imageVars, replVars>>
  \/ GitCheckout
       /\ UNCHANGED <<bridgeVars, callVars, execVars, runVars, kitVars, wireVars,
                      parseVars, engineVars, peerVars, walkVars, imageVars, replVars>>
  \/ PeerResolve /\ UNCHANGED <<bridgeVars, callVars, execVars, runVars, kitVars, wireVars, parseVars, engineVars, walkVars, imageVars, replVars>>
  \/ PeerGit /\ UNCHANGED <<bridgeVars, callVars, execVars, runVars, kitVars, wireVars, parseVars, engineVars, walkVars, imageVars, replVars>>

SpecRace == RaceStart /\ [][RaceNext]_vars

WalkStart ==
  WalkInit /\ ImageIdle /\ ReplIdle /\ GitIdle /\ PeerIdle /\ EngineIdle /\ KitIdle /\ WireIdle /\ BridgeIdle
    /\ CallIdle /\ ExecIdle /\ RunIdle /\ ParseIdle

WalkNext ==
  \/ ListToolsCall /\ UNCHANGED <<bridgeVars, callVars, execVars, runVars, kitVars, wireVars, parseVars, gitVars, engineVars, peerVars, imageVars, replVars>>
  \/ WalkTableStep /\ UNCHANGED <<bridgeVars, callVars, execVars, runVars, kitVars, wireVars, parseVars, gitVars, engineVars, peerVars, imageVars, replVars>>

\* a goroutine that is inside ListTools keeps running until it returns or the
\* runtime ends the process
SpecWalk == WalkStart /\ [][WalkNext]_vars /\ WF_vars(WalkNext)

ImageStart ==
  ImageIdle /\ ReplIdle /\ WalkIdle /\ GitIdle /\ PeerIdle /\ EngineIdle /\ KitIdle /\ WireIdle
    /\ BridgeIdle /\ CallIdle /\ ExecIdle /\ RunIdle /\ ParseIdle

ImageNext ==
  \/ EnsureImage /\ UNCHANGED <<bridgeVars, callVars, execVars, runVars, kitVars, wireVars, parseVars, gitVars, engineVars, peerVars, walkVars, replVars>>
  \/ RemoveImage /\ UNCHANGED <<bridgeVars, callVars, execVars, runVars, kitVars, wireVars, parseVars, gitVars, engineVars, peerVars, walkVars, replVars>>

SpecImage == ImageStart /\ [][ImageNext]_vars

ReplStart ==
  ReplInit /\ ImageIdle /\ WalkIdle /\ GitIdle /\ PeerIdle /\ EngineIdle /\ KitIdle
    /\ WireIdle /\ BridgeIdle /\ CallIdle /\ ExecIdle /\ RunIdle /\ ParseIdle

ReplNext ==
  ReplReadline /\ UNCHANGED <<bridgeVars, callVars, execVars, runVars, kitVars, wireVars, parseVars, gitVars, engineVars, peerVars, walkVars, imageVars>>

SpecRepl == ReplStart /\ [][ReplNext]_vars
(***************************************************************************)
(* C6: the round trip goToLua then luaToGo.                                *)
(***************************************************************************)
IsGoList(v) == v[1] = "slice"
IsGoMap(v) == v[1] = "map"

\* v holds no empty list and no nil inside a list or a map, at any depth
RECURSIVE Lossless(_)
Lossless(v) ==
  CASE IsGoList(v) ->
         /\ v[2] # << >>
         /\ \A i \in DOMAIN v[2] : v[2][i] # GoNil /\ Lossless(v[2][i])
    [] IsGoMap(v) ->
         \A k \in DOMAIN v[2] : v[2][k] # GoNil /\ Lossless(v[2][k])
    [] OTHER -> TRUE

\* C6 as claimed: every value of the JSON shape, empty lists and containers
\* holding nil included, comes back from goToLua then luaToGo as it went in.
C6_RoundTripAny == bridged => back = native

\* C6 as amended: a value comes back from goToLua then luaToGo exactly as it
\* went in when it holds no empty list and no nil inside a list or a map; an
\* empty list comes back as an empty map, and a nil element or a nil map value
\* is dropped.
C6_RoundTripLossless ==
  bridged =>
    /\ Lossless(native) => back = native
    /\ native = GoList(<< >>) => back = GoMap(<< >>)
    /\ native = GoList(<<GoNil, GoStr("a")>>) => back = GoList(<<GoStr("a")>>)
    /\ native = GoMap([k \in {"k"} |-> GoNil]) => back = GoMap(<< >>)

\* a map holding a non-empty list has made the round trip unchanged
C6_Witness ==
  /\ bridged
  /\ native = GoMap([k \in {"k"} |-> GoList(<<GoStr("a"), GoNum(42)>>)])
  /\ back = native

(***************************************************************************)
(* C1: the merge.                                                          *)
(***************************************************************************)
\* C1: while a call is in progress (its merged table is what validation and
\* the input adapter are given) the keys of merged are the keys of defaults
\* united with the caller's, and each key holds the caller's value when the
\* caller gave one and the default's otherwise.
C1_MergeUserWins ==
  pc # "idle" =>
    LET d == cfg.Defaults
        u == StrDictOf(userParams)
    IN  /\ ArrayOf(merged) = << >>
        /\ DOMAIN StrDictOf(merged) = (DOMAIN d) \cup (DOMAIN u)
        /\ \A k \in DOMAIN StrDictOf(merged) :
             StrDictOf(merged)[k] = IF k \in DOMAIN u THEN u[k] ELSE d[k]

\* a call with an overridden default, an untouched default and a key of the
\* caller's only has reached the input adapter
C1_Witness ==
  /\ pc = "validated"
  /\ DOMAIN cfg.Defaults = {"name", "count"}
  /\ StrDictOf(userParams) =
       [k \in {"name", "verbose"} |-> IF k = "name" THEN LString("world") ELSE LTrue]
  /\ StrDictOf(merged) =
       [k \in {"name", "count", "verbose"} |->
          CASE k = "name" -> LString("world")
            [] k = "count" -> LNumber(5)
            [] OTHER -> LTrue]

(***************************************************************************)
(* C2: schema validation.                                                  *)
(***************************************************************************)
\* the value has the declared type: string, number, boolean, or any table
\* for array and object
HasDeclaredType(t, val) ==
  \/ t = "string" /\ TypeOf(val) = "string"
  \/ t = "number" /\ TypeOf(val) = "number"
  \/ t = "boolean" /\ TypeOf(val) = "boolean"
  \/ t \in {"array", "object"} /\ TypeOf(val) = "table"

\* the field is absent and optional, or present with the declared type
FieldOK(name) ==
  IF name \in DOMAIN StrDictOf(merged)
  THEN HasDeclaredType(cfg.Schema.Input[name].Type, StrDictOf(merged)[name])
  ELSE ~cfg.Schema.Input[name].Required

DeclaredFields ==
  IF cfg.Schema.Declared /\ cfg.Schema.HasInput THEN DOMAIN cfg.Schema.Input ELSE {}

ValidationFailed == pc = "raised" /\ Contains(raised, "Schema Validation Failure")

ValidationPassed == pc \notin {"idle", "merged"} /\ ~ValidationFailed

\* C2: validation passes exactly when every declared input field is absent
\* and optional or present with its declared type; a failure raises an error
\* holding "Schema Validation Failure" and the name of a failing field; with
\* no schema or no input schema validation never fails.
C2_ValidationIffFieldsOK ==
  /\ ValidationPassed => \A f \in DeclaredFields : FieldOK(f)
  /\ ValidationFailed =>
       /\ \E f \in DeclaredFields : ~FieldOK(f) /\ Contains(raised, Quote(f))
       /\ runs = 0
  /\ (~cfg.Schema.Declared \/ ~cfg.Schema.HasInput) => ~ValidationFailed

\* a call giving a string for a number field has been refused
C2_Witness ==
  /\ pc = "raised"
  /\ "count" \in DeclaredFields
  /\ GetField(merged, "count") = LString("world")
  /\ raised = "Schema Validation Failure: field \"count\": expected number, got string"

(***************************************************************************)
(* C7 and C8: the args and positional_args input adapters.                 *)
(***************************************************************************)
\* where the flag of key k stands in args
FlagPositions(args, k) == {i \in DOMAIN args : args[i] = "--" \o k}

\* the arguments key k with value val is to yield
FlagWidth(val) ==
  CASE TypeOf(val) = "boolean" -> IF val[2] THEN 1 ELSE 0
    [] TypeOf(val) \in {"number", "string"} -> 2
    [] TypeOf(val) = "table" -> 2 * Len(ArrayOf(val))
    [] OTHER -> 0

RECURSIVE TotalWidth(_, _)
TotalWidth(dict, keys) ==
  IF keys = {} THEN 0
  ELSE LET k == CHOOSE x \in keys : TRUE IN
       FlagWidth(dict[k]) + TotalWidth(dict, keys \ {k})

\* the text of a scalar as an argument
ScalarText(val) ==
  CASE TypeOf(val) = "number" -> ToString(val[2])
    [] TypeOf(val) = "string" -> val[2]
    [] TypeOf(val) = "boolean" -> IF val[2] THEN "true" ELSE "false"
    [] OTHER -> ""

\* args holds, for key k with value val, what the args adapter's rules say
FlagRule(args, k, val) ==
  LET P == FlagPositions(args, k) IN
  CASE TypeOf(val) = "boolean" ->
         IF val[2]
         THEN /\ Cardinality(P) = 1
              /\ \A i \in P : i = Len(args) \/ HasPrefix(args[i + 1], "--")
         ELSE P = {}
    [] TypeOf(val) \in {"number", "string"} ->
         /\ Cardinality(P) = 1
         /\ \A i \in P : i < Len(args) /\ args[i + 1] = ScalarText(val)
    [] TypeOf(val) = "table" ->
         /\ Cardinality(P) = Len(ArrayOf(val))
         /\ ArrayOf(val) # << >> =>
              \E p \in P :
                \A j \in 1..Len(ArrayOf(val)) :
                  /\ p + 2 * (j - 1) \in P
                  /\ args[p + 2 * (j - 1) + 1] = ScalarText(ArrayOf(val)[j])
    [] OTHER -> P = {}

\* args is made of the flags of the keys of dict and of nothing else
FlagRules(args, dict) ==
  /\ \A k \in DOMAIN dict : FlagRule(args, k, dict[k])
  /\ Len(args) = TotalWidth(dict, DOMAIN dict)

ArgsAdapted == pc = "adapted" /\ cfg.InputAdapter \notin {"json", "positional_args"}

\* C7: under the args adapter a true key gives the flag alone, a false key
\* nothing, a string or number key the pair flag and value, a table key the
\* flag once per element with that element, and there are no stdin bytes.
C7_ArgsFlags ==
  ArgsAdapted =>
    /\ FlagRules(extraArgs, StrDictOf(merged))
    /\ inputB = NoBytes

\* a true key, a false key and a string key have been adapted
C7_Witness ==
  /\ ArgsAdapted
  /\ cfg.InputAdapter = "args"
  /\ StrDictOf(merged) =
       [k \in {"name", "count", "verbose"} |->
          CASE k = "name" -> LString("world")
            [] k = "count" -> LFalse
            [] OTHER -> LTrue]
  /\ extraArgs = <<"--verbose", "--name", "world">>

\* args_order without the keys the parameters lack
RECURSIVE PresentKeys(_, _)
PresentKeys(order, dict) ==
  IF order = << >> THEN << >>
  ELSE (IF Head(order) \in DOMAIN dict THEN <<Head(order)>> ELSE << >>)
         \o PresentKeys(Tail(order), dict)

PositionalAdapted == pc = "adapted" /\ cfg.InputAdapter = "positional_args"

\* C8: under positional_args the arguments begin with the values of the
\* fields of args_order that the parameters hold, in that order and bare (a
\* scalar as its text); no field of args_order appears as a flag; the other
\* keys follow, by the rules of the args adapter.
C8_PositionalFirst ==
  PositionalAdapted =>
    LET dict == StrDictOf(merged)
        present == PresentKeys(cfg.ArgsOrder, dict)
        n == Len(present)
        others == (DOMAIN dict) \ Range(cfg.ArgsOrder)
    IN  /\ Len(extraArgs) >= n
        /\ \A i \in 1..n :
             TypeOf(dict[present[i]]) # "table" =>
               extraArgs[i] = ScalarText(dict[present[i]])
        /\ \A k \in Range(cfg.ArgsOrder) : FlagPositions(extraArgs, k) = {}
        /\ FlagRules(SubSeq(extraArgs, n + 1, Len(extraArgs)),
                     [k \in others |-> dict[k]])
        /\ inputB = NoBytes

\* a call lacking the first positional field has been adapted: the second
\* field's value comes first and the key outside args_order follows as a flag
C8_Witness ==
  /\ PositionalAdapted
  /\ cfg.ArgsOrder = <<"name", "count">>
  /\ StrDictOf(merged) =
       [k \in {"count", "verbose"} |-> IF k = "count" THEN LNumber(3) ELSE LTrue]
  /\ extraArgs = <<"3", "--verbose">>

(***************************************************************************)
(* C9: the lines output adapter.                                           *)
(***************************************************************************)
\* s is newlines only
RECURSIVE AllNewlines(_)
AllNewlines(s) ==
  s = "" \/ (Sub(s, 1, 1) = "\n" /\ AllNewlines(Sub(s, 2, Len(s))))

\* the list under "lines" of the native result, as strings
OutputLines == [i \in 1..Len(output[2]["lines"][2]) |-> output[2]["lines"][2][i][2]]

LinesReturned == pc = "returned" /\ cfg.OutputAdapter = "lines"

\* the non-empty elements, in order
RECURSIVE NonEmpty(_)
NonEmpty(lines) ==
  IF lines = << >> THEN << >>
  ELSE (IF Head(lines) = "" THEN << >> ELSE <<Head(lines)>>) \o NonEmpty(Tail(lines))

\* C9 as claimed: the lines are those of stdout less one trailing newline,
\* split on newline, the empty ones left out.
C9_LinesNonEmpty ==
  LinesReturned =>
    /\ DOMAIN output[2] = {"lines"}
    /\ OutputLines = NonEmpty(Split(TrimOneNewline(outputB[2]), "\n"))

\* C9 as amended: the lines are those of stdout less all its trailing
\* newlines, split on newline, every line kept, the empty ones too: joined by
\* newlines they give stdout back up to its trailing newlines; a stdout of
\* newlines only gives the empty list; the result handed to the script is
\* the table {lines = L}.
C9_LinesAllKept ==
  LinesReturned =>
    /\ DOMAIN output[2] = {"lines"}
    /\ \A i \in DOMAIN OutputLines : ~Contains(OutputLines[i], "\n")
    /\ HasPrefix(outputB[2], Join(OutputLines, "\n"))
    /\ AllNewlines(Sub(outputB[2], Len(Join(OutputLines, "\n")) + 1, Len(outputB[2])))
    /\ OutputLines # << >> => OutputLines[Len(OutputLines)] # ""
    /\ AllNewlines(outputB[2]) => OutputLines = << >>
    /\ result = LTable(<< >>, [k \in {"lines"} |->
                  LTable([i \in DOMAIN OutputLines |-> LString(OutputLines[i])], << >>)])

\* a stdout with an empty line between two lines has been split in three
C9_Witness ==
  /\ LinesReturned
  /\ outputB = Text("a\n\na")
  /\ OutputLines = <<"a", "", "a">>

(***************************************************************************)
(* C10: the input map of kael exec.                                        *)
(***************************************************************************)
\* the object piped in; empty when stdin is a terminal or holds no bytes
StdinObject ==
  IF stdin = Piped("{\"name\":\"in\",\"status\":\"ok\"}")
  THEN [k \in {"name", "status"} |-> IF k = "name" THEN GoStr("in") ELSE GoStr("ok")]
  ELSE << >>

StdinIsObject ==
  stdin \in {NotPiped, Piped(""), Piped("{\"name\":\"in\",\"status\":\"ok\"}")}

\* the positions of toolArgs holding --k
FlagsOf(k) == {i \in DOMAIN toolArgs : toolArgs[i] = "--" \o k}

\* the keys given on the command line
CliKeys == {TrimPrefix(toolArgs[i], "--") : i \in {j \in DOMAIN toolArgs : HasPrefix(toolArgs[j], "--")}}

\* what a value token stands for
TokenValue(tok) ==
  CASE tok = "world" -> GoStr("world")
    [] tok = "3" -> GoNum(3)
    [] tok = "-5" -> GoNum(0 - 5)
    [] tok = "true" -> GoBool(TRUE)
    [] OTHER -> GoStr(tok)

\* a token that is no flag stands where a key is expected: at the start, or
\* after a token that is no flag either
BadKeyPosition ==
  \/ toolArgs # << >> /\ ~HasPrefix(toolArgs[1], "--")
  \/ \E i \in 1..(Len(toolArgs) - 1) :
       ~HasPrefix(toolArgs[i], "--") /\ ~HasPrefix(toolArgs[i + 1], "--")

ExecBuilt == execPc \in {"built", "invoked"}

\* C10: the input map is the object piped in overlaid with the flags: a key
\* of the command line holds the value of its (last) flag, true when the flag
\* is followed by another flag or by nothing; a key of stdin alone keeps its
\* value; there is no other key; and a token that is no flag where a key is
\* expected fails the command before ExecTool is called.
C10_StdinOverlaidWithFlags ==
  /\ (ExecBuilt /\ StdinIsObject) =>
       /\ input # NilMap
       /\ DOMAIN input[2] = (DOMAIN StdinObject) \cup CliKeys
       /\ \A k \in (DOMAIN StdinObject) \ CliKeys : input[2][k] = StdinObject[k]
       /\ \A k \in CliKeys :
            LET last == CHOOSE i \in FlagsOf(k) : \A j \in FlagsOf(k) : j <= i IN
            input[2][k] = IF last = Len(toolArgs) \/ HasPrefix(toolArgs[last + 1], "--")
                       THEN GoBool(TRUE)
                       ELSE TokenValue(toolArgs[last + 1])
  /\ (BadKeyPosition /\ execPc # "start") =>
       /\ execPc = "failed"
       /\ execErr # ""
  /\ execPc = "failed" => ~invoked
  /\ invoked => ExecBuilt

\* a flag with a value over the same key of stdin, and a flag alone at the
\* end, have been built into the map and ExecTool was called
C10_Witness ==
  /\ execPc = "invoked"
  /\ toolArgs = <<"--name", "world", "--count">>
  /\ stdin = Piped("{\"name\":\"in\",\"status\":\"ok\"}")
  /\ input = GoMap([k \in {"name", "status", "count"} |->
                      CASE k = "name" -> GoStr("world")
                        [] k = "status" -> GoStr("ok")
                        [] OTHER -> GoBool(TRUE)])

RequireCount(content) ==
  Cardinality(Occurrences(content, requireLine(wireArgs[1], wireArgs[2])))

\* C4 as claimed: a second call of wireNamespace with the same arguments
\* leaves the init file as it was, and after any number of calls with the same
\* arguments the file holds the require line exactly once, whatever the file.
C4_ExactlyOneAfterWire ==
  /\ wireCalls >= 2 => files["init.lua"] = wireBefore
  /\ wireCalls >= 1 => RequireCount(files["init.lua"]) = 1

\* C4 as amended: a second call of wireNamespace with the same arguments
\* leaves the init file byte for byte as it was, whatever the file; after any
\* number of calls with the same arguments that returned without error the
\* file holds the require line exactly once when it held it at most once
\* before the first of them.
C4_WireIdempotent ==
  /\ wireCalls >= 2 => files["init.lua"] = wireBefore
  /\ (wireCalls >= 1 /\ wireErr = "" /\ RequireCount(wireFirst) <= 1) =>
       RequireCount(files["init.lua"]) = 1

\* wireNamespace has been called twice on a file that lacked the line: the
\* first call inserted it and the second changed nothing
C4_Witness ==
  /\ wireCalls = 2
  /\ wireErr = ""
  /\ RequireCount(wireFirst) = 0
  /\ RequireCount(wireBefore) = 1
  /\ files["init.lua"] = wireBefore

(***************************************************************************)
(* C3: the catalog after kit add and kit remove.                           *)
(***************************************************************************)
\* kit add has just written and wired a tool into a kit that loaded
AddSucceeded == lastCmd.Cmd = "add" /\ lastCmd.Err = "" /\ lastCmd.Loadable

\* kit remove has just removed a tool that kit add had added
RemoveSucceeded ==
  lastCmd.Cmd = "remove" /\ lastCmd.Err = "" /\ lastCmd.Arg \in added

\* C3 as claimed: after kit add has written and wired a tool t under ns in a
\* kit that loaded, the kit loads, ListTools holds a tool at ns.t and
\* resolving ns.t succeeds; after a later kit remove ns.t has succeeded,
\* resolving ns.t in the kit loaded anew fails with "not found" and the file
\* <ns-dir>/t.lua is gone.
C3_CatalogRoundTrip ==
  LET kit == NewEngine(files)
      root == ListTools(kit)
      path == lastCmd.Arg
  IN  /\ AddSucceeded =>
           /\ ~IsError(kit)
           /\ path \in ToolPathsOf(root, "")
           /\ resolveTool(root, path) = ""
      /\ RemoveSucceeded =>
           /\ ~IsError(kit)
           /\ resolveTool(root, path) = "tool " \o Quote(path) \o " not found"
           /\ FileIn(ParentOf(path), LastPart(path) \o ".lua") \notin DOMAIN files

(***************************************************************************)
(* C11: the monorepo separator.                                            *)
(***************************************************************************)
\* the scheme prefix of the source, "" for none
SchemeOf(s) ==
  IF HasPrefix(s, "https://") THEN "https://"
  ELSE IF HasPrefix(s, "http://") THEN "http://"
  ELSE ""

\* s without its scheme prefix
AfterScheme(s) == Sub(s, Len(SchemeOf(s)) + 1, Len(s))

\* base ends where the first "//" after the scheme of the source begins
EndsAtSeparator(base) ==
  /\ HasPrefix(source, base \o "//")
  /\ HasPrefix(base, SchemeOf(source))
  /\ ~Contains(AfterScheme(base) \o "/", "//")

\* C11 as claimed: when no "//" occurs after the scheme prefix the result is
\* (source, ""); otherwise base is the text before the first "//" after the
\* scheme and the in-repo path is the text after that "//".
C11_SplitAfterScheme ==
  parsed[1] = "parsed" =>
    IF ~Contains(AfterScheme(source), "//")
    THEN parsed[2] = source /\ parsed[3] = ""
    ELSE /\ EndsAtSeparator(parsed[2])
         /\ source = parsed[2] \o "//" \o parsed[3]

\* C11 as amended: when no "//" occurs after the scheme prefix the result is
\* (source, ""); otherwise base is the text before the first "//" after the
\* scheme and the in-repo path is the text after that "//" less one leading
\* "/" when it has one.
C11_SplitTrimsSlash ==
  parsed[1] = "parsed" =>
    IF ~Contains(AfterScheme(source), "//")
    THEN parsed[2] = source /\ parsed[3] = ""
    ELSE /\ EndsAtSeparator(parsed[2])
         /\ \/ source = parsed[2] \o "//" \o parsed[3] /\ ~HasPrefix(parsed[3], "/")
            \/ source = parsed[2] \o "///" \o parsed[3]

\* an https source with a separator has been split after its host part
C11_Witness ==
  /\ source = "https://a//a"
  /\ parsed = <<"parsed", "https://a", "a">>

(***************************************************************************)
(* C12: kit add on a tool file that exists.                                *)
(***************************************************************************)
\* the tool file of a tool path
ToolFile(path) == FileIn(ParentOf(path), LastPart(path) \o ".lua")

\* C12: a kit add whose tool file exists and that was not given --force
\* fails and changes no file of the kit (the tool file and the namespace's
\* init.lua among them); a kit add changes the content of a tool file that
\* existed only when --force was given.
C12_ExistingNeedsForce ==
  [][(lastCmd'.Cmd = "add" /\ lastCmd' # lastCmd
        /\ ToolFile(lastCmd'.Arg) \in DOMAIN files) =>
       /\ ~lastCmd'.Force => lastCmd'.Err # "" /\ files' = files
       /\ files'[ToolFile(lastCmd'.Arg)] # files[ToolFile(lastCmd'.Arg)] =>
            lastCmd'.Force]_vars

\* kit add without --force has refused to write over ops/download.lua, and
\* the file holds what it held
C12_Witness ==
  /\ lastCmd.Cmd = "add"
  /\ lastCmd.Arg = "ops.download"
  /\ ~lastCmd.Force
  /\ lastCmd.Err =
       "tool \"download\" already exists at ops/download.lua (use --force to overwrite)"
  /\ files["ops/download.lua"] = generateLua("/old", skeletonAnalysis("download.py"))

(***************************************************************************)
(* C13: kit init <dotted namespace>.                                       *)
(***************************************************************************)
\* the levels of a dotted namespace: "a.b.c" has a, a.b and a.b.c
Levels(ns) ==
  LET parts == Split(ns, ".") IN
  {Join(SubSeq(parts, 1, i), ".") : i \in 1..Len(parts)}

RECURSIVE LinesKept(_, _)
\* every line of old is a line of new, in the same order
LinesKept(old, new) ==
  IF old = << >> THEN TRUE
  ELSE IF new = << >> THEN FALSE
  ELSE IF Head(old) = Head(new) THEN LinesKept(Tail(old), Tail(new))
  ELSE LinesKept(old, Tail(new))

C14_DefaultExecutorDocker ==
  (pc # "idle" /\ configExecutor = LNil) =>
    /\ cfg.Executor = "docker"
    /\ \A i \in DOMAIN dispatched : dispatched[i] = "docker"

\* a tool defined without executor has been called and the runner has run
C14_Witness ==
  /\ pc = "ran"
  /\ configExecutor = LNil
  /\ cfg.Executor = "docker"
  /\ dispatched = <<"docker">>

(***************************************************************************)
(* C15: the steps of a call.                                               *)
(***************************************************************************)
\* validation of the call's merged table found no failing field
Validated ==
  validateInput(cfg.Schema, merged, SeqOf(DOMAIN cfg.Schema.Input)) = ""

\* the input adapter gave inputB and extraArgs without an error
Adapted ==
  \E keyOrder \in Orders(DOMAIN StrDictOf(merged)) :
    adaptInput(cfg.InputAdapter, merged, cfg.ArgsOrder, keyOrder)
      = <<inputB, extraArgs, "">>

\* C15: a call goes through merge, validate, adapt input, run and adapt
\* output in this order and a failure at a step ends it: the runner is called
\* at most once, and only when validation and the input adapter succeeded;
\* the output adapter gives a result only after the runner returned without
\* error; a failure is a raised error, after which the call is over and the
\* next call can be made.
C15_StepsInOrder ==
  /\ [](/\ runs <= 1
        /\ pc \in {"validated", "adapted", "ran", "returned"} => Validated
        /\ pc \in {"adapted", "ran", "returned"} => Adapted
        /\ runs = 1 => pc \in {"ran", "returned", "raised"} /\ Validated /\ Adapted
        /\ pc \in {"ran", "returned"} => runs = 1
        /\ pc = "returned" => adaptOutput(cfg.OutputAdapter, outputB) = <<output, "">>
        /\ (output # GoNil \/ result # LNil) => pc = "returned"
        /\ raised # "" <=> pc = "raised"
        /\ pc = "raised" => ENABLED Return
        /\ pc = "idle" => ENABLED Call)
  /\ [][(<<pc, pc'>> \in
          {<<"idle", "merged">>, <<"merged", "validated">>, <<"validated", "adapted">>,
           <<"adapted", "ran">>, <<"ran", "returned">>, <<"returned", "idle">>,
           <<"merged", "raised">>, <<"validated", "raised">>, <<"adapted", "raised">>,
           <<"ran", "raised">>, <<"raised", "idle">>})]_pc

\* the runner's error has been raised: validation and the input adapter
\* succeeded, the runner ran once and the output adapter did not
C15_Witness ==
  /\ pc = "raised"
  /\ raised = "Tool Run Failure: exit 1: "
  /\ runs = 1
  /\ Validated /\ Adapted
  /\ cfg.Schema.HasInput
  /\ output = GoNil /\ result = LNil

(***************************************************************************)
(* C17: which failing field validation reports.                            *)
(***************************************************************************)
\* the failure of one declared field against the merged table of the call,
\* "" when the field does not fail
FieldError(name) ==
  LET field == cfg.Schema.Input[name]
      val == GetField(merged, name)
  IN  IF val = LNil
      THEN IF field.Required
           THEN "missing required field " \o Quote(name)
                  \o " (expected " \o field.Type \o ")"
           ELSE ""
      ELSE checkType(name, field.Type, val)

\* validation has raised its error
ValidationRaised ==
  pc = "raised" /\ HasPrefix(raised, "Schema Validation Failure: ")

\* C17 as claimed: when validation fails, the field it reports is fixed by
\* the schema and the merged table: the error raised is the one every order
\* of going through the declared fields gives, that of the earliest-declared
\* failing field.
C17_SameFieldReported ==
  ValidationRaised =>
    \A fieldOrder \in Orders(DOMAIN cfg.Schema.Input) :
      raised = "Schema Validation Failure: "
                 \o validateInput(cfg.Schema, merged, fieldOrder)

\* C17 as amended: validation stops at the first failing field of the order
\* in which it goes through the declared fields, so the error raised is that
\* of one failing field; the order is not fixed, and only when a single
\* field fails is the field reported the same in every invocation.
C17_OneFailingFieldReported ==
  ValidationRaised =>
    /\ \E name \in DOMAIN cfg.Schema.Input :
         /\ FieldError(name) # ""
         /\ raised = "Schema Validation Failure: " \o FieldError(name)
    /\ Cardinality({name \in DOMAIN cfg.Schema.Input : FieldError(name) # ""}) = 1 =>
         \A fieldOrder \in Orders(DOMAIN cfg.Schema.Input) :
           raised = "Schema Validation Failure: "
                      \o validateInput(cfg.Schema, merged, fieldOrder)

\* name and count both fail and the error raised is that of count
C17_Witness ==
  /\ ValidationRaised
  /\ DOMAIN cfg.Schema.Input = {"name", "count"}
  /\ FieldError("name") # ""
  /\ FieldError("count") # ""
  /\ raised = "Schema Validation Failure: " \o FieldError("count")

(***************************************************************************)
(* C16: the git commands of a resolution.                                  *)
(***************************************************************************)
\* the names of the git commands run so far, in order
OpNames == [i \in DOMAIN gitOps |-> gitOps[i][1]]

\* the git commands (cloned?, refresh, tag) call for
ExpectedOps ==
  (IF ~resolving.Cloned THEN <<"clone">>
   ELSE IF resolving.Refresh THEN <<"fetch", "reset">> ELSE << >>)
    \o (IF resolving.Tag \notin {"", "latest"} THEN <<"checkout">> ELSE << >>)

\* the command a failure message is about, "" for a failure of no command
FailedOp ==
  CASE HasPrefix(resolved[2], "git clone: ") -> "clone"
    [] HasPrefix(resolved[2], "git fetch: ") -> "fetch"
    [] HasPrefix(resolved[2], "git reset: ") -> "reset"
    [] HasPrefix(resolved[2], "git checkout ") -> "checkout"
    [] OTHER -> ""

\* C16: the git commands of a resolution are those its cache state, refresh
\* and tag call for, in order: a clone exactly when the cache path held no
\* working copy, a fetch and then a reset to origin/<default branch> exactly
\* when it held one and refresh is set, a checkout of the tag exactly when
\* the tag is neither empty nor "latest", after the others; a resolution
\* that has failed has run the commands up to the failed one and none after.
C16_GitOpsByState ==
  /\ [](/\ Len(OpNames) <= Len(ExpectedOps)
        /\ OpNames = SubSeq(ExpectedOps, 1, Len(OpNames))
        /\ \A i \in DOMAIN gitOps :
             /\ gitOps[i][1] = "clone" =>
                  gitOps[i] = <<"clone", resolving.Url, resolving.CachePath>>
             /\ gitOps[i][1] = "reset" =>
                  /\ gitOps[i][2] = resolving.CachePath
                  /\ HasPrefix(gitOps[i][3], "origin/")
             /\ gitOps[i][1] = "checkout" =>
                  gitOps[i] = <<"checkout", resolving.CachePath, resolving.Tag>>
        /\ gitPc = "done" => OpNames = ExpectedOps /\ resolved[1] = "ok"
        /\ gitPc = "failed" =>
             /\ resolved[1] = "error"
             /\ FailedOp # "" => OpNames # << >> /\ OpNames[Len(OpNames)] = FailedOp
             /\ FailedOp = "" => OpNames = << >>)
  /\ [][gitPc = "failed" => gitOps' = << >>]_gitVars

\* a refresh of a cached repository with a tag has run fetch, reset and
\* checkout
C16_Witness ==
  /\ gitPc = "done"
  /\ resolving.Cloned /\ resolving.Refresh /\ resolving.Tag = "v1"
  /\ OpNames = <<"fetch", "reset", "checkout">>
  /\ gitOps[2][3] = "origin/develop"

C19_RemoveAllOrNothing ==
  [][(lastCmd'.Cmd = "remove" /\ lastCmd' # lastCmd /\ lastCmd'.Err # "") =>
       files' = files]_vars

(***************************************************************************)
(* C20: kit add into a kit that then fails to load.                        *)
(***************************************************************************)
\* the kit add that has just run wrote its tool file and wired it
AddWroteAndWired ==
  /\ lastCmd.Cmd = "add"
  /\ ToolFile(lastCmd.Arg) \in DOMAIN files
  /\ files[ToolFile(lastCmd.Arg)] \in
       {generateLua(SourceDir, skeletonAnalysis(s)) : s \in Scripts}
  /\ FileIn(ParentOf(lastCmd.Arg), "init.lua") \in DOMAIN files
  /\ Contains(files[FileIn(ParentOf(lastCmd.Arg), "init.lua")],
              requireLine(LastPart(lastCmd.Arg), lastCmd.Arg))

\* C20: a kit add that has written and wired its tool returns no error,
\* whether or not the kit loads afterwards; when the kit does not load it
\* gives the warning of the validation, and the file and the require line
\* stay.
C20_AddWarnsWithoutRollback ==
  lastCmd.Cmd = "add" =>
    /\ lastCmd.Warning # "" => lastCmd.Err = "" /\ AddWroteAndWired
    /\ lastCmd.Err = "" =>
         /\ AddWroteAndWired
         /\ lastCmd.Warning # "" <=> IsError(NewEngine(files))
    /\ (lastCmd.Err # "" /\ IsError(NewEngine(files))) =>
         HasPrefix(lastCmd.Err, "namespace ") \/ HasPrefix(lastCmd.Err, "tool ")
           \/ HasPrefix(lastCmd.Err, "wire namespace: ")

\* kit add of check-disk.sh has returned no error and a warning, the kit no
\* longer loads, and the file and its line are in the kit
C20_Witness ==
  /\ lastCmd.Cmd = "add"
  /\ lastCmd.Arg = "ops.check-disk"
  /\ lastCmd.Err = ""
  /\ lastCmd.Warning # ""
  /\ lastCmd.Loadable
  /\ IsError(NewEngine(files))
  /\ AddWroteAndWired


(***************************************************************************)
(* C21: the error of ExecTool and the segment that could not be resolved   *)
(***************************************************************************)
RECURSIVE FailingSegment(_, _)
\* the first segment of parts that does not resolve under current, every
\* segment but the last having to be a table and the last a function; ""
\* when all resolve
FailingSegment(current, parts) ==
  IF current[1] # "table" \/ Head(parts) \notin DOMAIN current[2] THEN Head(parts)
  ELSE LET v == current[2][Head(parts)] IN
       IF Len(parts) = 1 THEN IF v[1] = "tool" THEN "" ELSE Head(parts)
       ELSE IF v[1] # "table" THEN Head(parts)
       ELSE FailingSegment(v, Tail(parts))

\* C21: when ExecTool cannot resolve a segment of the tool path, no tool is
\* called and the error it returns names that segment and no other segment
\* of the path.
C21_ErrorNamesFailingSegment ==
  lastApi[1] = "ExecTool" =>
    LET parts == Split(lastApi[2][2], ".")
        failing == FailingSegment(kitGlobal, parts)
    IN  failing # "" =>
          /\ lastApi[3][1] = "error"
          /\ Contains(lastApi[3][2], Quote(failing))
          /\ \A i \in DOMAIN parts :
               parts[i] # failing => ~Contains(lastApi[3][2], Quote(parts[i]))

(***************************************************************************)
(* C22: positional_args without args_order                                 *)
(***************************************************************************)
\* C22: a call of a tool whose input adapter is positional_args and whose
\* args_order is absent or empty does not get past the input adapter: it
\* raises an error and the runner is not called.
C22_PositionalWithoutOrderFails ==
  (cfg.InputAdapter = "positional_args" /\ cfg.ArgsOrder = << >>
     /\ pc \notin {"idle", "merged", "validated"})
    => pc = "raised" /\ runs = 0

(***************************************************************************)
(* C29: unwiring undoes wiring                                             *)
(***************************************************************************)
\* C29: when wireNamespace was called on an init file that held `return M`
\* and not the require line, a call of unwireNamespace with the same
\* arguments right after it returns no error and leaves the file with the
\* content it had before the two calls.
C29_UnwireUndoesWire ==
  [][(/\ wireOp = "wire" /\ wireOp' = "unwire"
      /\ wireArgs' = wireArgs
      /\ Contains(wireBefore, "return M")
      /\ ~Contains(wireBefore, requireLine(wireArgs[1], wireArgs[2])))
       => /\ wireErr' = ""
          /\ files'["init.lua"] = wireBefore
          /\ wireBefore' # wireBefore]_vars

\* an empty init.lua was wired and then unwired with the same arguments, and
\* is empty again
C29_Witness ==
  /\ wireOp = "unwire"
  /\ wireArgs = <<"t", "ns.t">>
  /\ wireCalls = 2
  /\ wireErr = ""
  /\ wireFirst = "local M = {}\nreturn M\n"
  /\ wireBefore = "local M = {}\nM.t = require(\"ns.t\")\nreturn M\n"
  /\ files["init.lua"] = wireFirst

(***************************************************************************)
(* C23: when ensureImage builds                                            *)
(***************************************************************************)
\* whether the runtime holds image before event j of the log: a build of it
\* succeeded and nobody removed it since
PresentBefore(j, image) ==
  \E i \in 1..(j - 1) :
    /\ imageLog[i][1] = "run" /\ imageLog[i][3] = image /\ imageLog[i][6] = "built"
    /\ \A k \in (i + 1)..(j - 1) : imageLog[k] # <<"rmi", image>>

\* the call at event j ran docker build
BuildRan(j) == imageLog[j][6] \in {"built", "build failed"}

\* C23 as stated: a call of ensureImage runs a build exactly when refresh is
\* set or the runtime holds no image of the computed name, so two calls for
\* the same triple without refresh, the image not removed in between, do not
\* both run a build.
C23_BuildIffRefreshOrAbsent ==
  \A j \in DOMAIN imageLog :
    imageLog[j][1] = "run" =>
      /\ BuildRan(j) <=> (imageLog[j][4] \/ ~PresentBefore(j, imageLog[j][3]))
      /\ \A i \in 1..(j - 1) :
           (/\ imageLog[i][1] = "run" /\ imageLog[i][2] = imageLog[j][2]
            /\ ~imageLog[i][4] /\ ~imageLog[j][4]
            /\ \A k \in (i + 1)..(j - 1) : imageLog[k][1] # "rmi")
             => ~(BuildRan(i) /\ BuildRan(j))

\* C23: a call of ensureImage goes on to build exactly when refresh is set
\* or the runtime's listing shows no image of the computed name, a listing
\* that fails showing none, and it then runs the build unless writing the
\* Dockerfile fails.  So once a build has succeeded and the image is not
\* removed, every later call without refresh whose listing works reuses the
\* image, a failed build being tried again by the next call; and no call with
\* refresh set reuses.
C23_BuildsWhenRefreshOrNotListed ==
  /\ images = {e[3] : e \in {x \in Range(imageLog) : x[1] = "run"}}
                \cap {n \in {ImageNames[t] : t \in Triples} :
                        PresentBefore(Len(imageLog) + 1, n)}
  /\ \A j \in DOMAIN imageLog :
       imageLog[j][1] = "run" =>
         LET e == imageLog[j]
             present == PresentBefore(j, e[3])
         IN  /\ e[6] # "reused" <=> (e[4] \/ ~(e[5] /\ present))
             /\ (present /\ e[5] /\ ~e[4]) => e[6] = "reused"
             /\ e[4] => e[6] \in {"built", "build failed", "setup failed"}
             /\ e[6] = "reused" => present

\* three calls for one triple: the first builds, the second, without refresh,
\* reuses the image, the third, with refresh, builds again
C23_Witness ==
  /\ Len(imageLog) = 3
  /\ \A j \in 1..3 : imageLog[j][1] = "run" /\ imageLog[j][2] = <<"/srv/My.Tool", "", "v1">>
  /\ ~imageLog[1][4] /\ imageLog[1][6] = "built"
  /\ ~imageLog[2][4] /\ imageLog[2][6] = "reused"
  /\ imageLog[3][4] /\ imageLog[3][6] = "built"

(***************************************************************************)
(* C24: the Refresh of a call's RunOptions                                 *)
(***************************************************************************)
\* C24: the RunOptions a tool call gives the Runner hold the Engine's Refresh
\* as it is at the call, whatever it was when the tool was defined, and
\* otherwise the config the Registry holds for the tool since its
\* definition.
C24_RefreshReadAtCall ==
  lastRun # <<"none">> =>
    /\ lastRun[3] = refreshFlag
    /\ lastRun[2] \in registry
    /\ lastRun[2][1] = lastApi[2][2]
    /\ lastApi[2][1] = "call"

\* ops.download was defined by the load of the kit, Refresh was set
\* afterwards, and ExecTool has called the tool: its RunOptions hold Refresh
C24_Witness ==
  /\ loaded
  /\ refreshFlag
  /\ lastApi = <<"ExecTool", <<"call", "ops.download">>, <<"called", "ops/download.lua">>>>
  /\ lastRun = <<"ro", <<"ops.download", "ops/download.lua">>, TRUE>>

(***************************************************************************)
(* C25: the prompt and the buffer of the REPL                              *)
(***************************************************************************)
\* C25: whenever the REPL reads a line the continuation prompt is shown
\* exactly when the buffer holds something; an incomplete chunk stays in the
\* buffer, with the line just read, under the continuation prompt; a syntax
\* error, an evaluation with or without error and an interrupt leave the
\* buffer empty under the main prompt; exit, quit and help are commands only
\* when the buffer is empty, and are lines of the chunk otherwise.
C25_PromptFollowsBuffer ==
  /\ [](replPc = "reading" => (replPrompt[1] = "cont" <=> replBuf # ""))
  /\ [][/\ replOut' = "incomplete" =>
             /\ replBuf' # "" /\ replPrompt'[1] = "cont"
             /\ replBuf' = (IF replBuf # "" THEN replBuf \o "\n" ELSE "")
                             \o TrimSpace(replIn'[2])
        /\ replOut' \in {"syntax error", "printed", "ran", "runtime error", "interrupt"}
             => replBuf' = "" /\ replPrompt' = <<"main", 0>>
        /\ replOut' \in {"exit", "help"} => replBuf = "" /\ replBuf' = ""
        /\ (replBuf # "" /\ replIn'[1] = "line")
             => replOut' \in {"incomplete", "syntax error", "printed", "ran",
                              "runtime error"}]_replVars

\* exit was typed while the buffer held an open block: the REPL is still
\* reading, under the continuation prompt, and exit is a line of the buffer
C25_Witness ==
  /\ replPc = "reading"
  /\ replIn = <<"line", " exit">>
  /\ replOut = "incomplete"
  /\ replBuf = "if x then\nexit"
  /\ replPrompt = <<"cont", 1>>

(***************************************************************************)
(* C26: two processes on one cache                                         *)
(***************************************************************************)
\* C26: nothing around the source cache excludes a second process: whatever
\* step of resolveGitSource one process stands at, the other can enter
\* resolveGitSource and can run its next git command, so both can find the
\* cache path without a working copy and both clone into it, and the fetch,
\* reset and checkout of one fall between the steps of the other.
C26_NoMutualExclusion ==
  /\ gitPc \in {"idle", "done", "failed"} => ENABLED ResolveGitSource
  /\ gitPc = "clone" => ENABLED GitClone
  /\ gitPc = "fetch" => ENABLED GitFetch
  /\ gitPc = "reset" => ENABLED GitResetHard
  /\ gitPc = "synced" => ENABLED GitCheckout
  /\ peer.Pc \in {"idle", "done", "failed"} => ENABLED PeerResolve
  /\ peer.Pc \in {"clone", "fetch", "reset", "synced"} => ENABLED PeerGit

\* both processes found no working copy at the same cache path and both have
\* run git clone into it
C26_Witness ==
  /\ ~resolving.Cloned /\ ~peer.Cloned
  /\ resolving.CachePath = peer.CachePath
  /\ gitOps = <<<<"clone", resolving.Url, resolving.CachePath>>>>
  /\ peer.Ops = <<<<"clone", peer.Url, peer.CachePath>>>>
  /\ gitPc = "synced" /\ peer.Pc = "synced"

(***************************************************************************)
(* C27: a resolution that runs no git command                              *)
(***************************************************************************)
\* C27: a resolution with an empty or "latest" tag and without refresh of a
\* URL whose cache path holds a working copy runs no git command and returns
\* the path: from its entry to its return every working copy stays at the ref
\* it stood at, whichever resolution left it there.
C27_CachedLatestRunsNothing ==
  /\ []((resolving.Cloned /\ ~resolving.Refresh /\ resolving.Tag \in {"", "latest"})
          => /\ gitOps = << >>
             /\ gitPc \in {"synced", "done"}
             /\ gitPc = "done" => resolved[1] = "ok")
  /\ [][(resolving'.Cloned /\ ~resolving'.Refresh /\ resolving'.Tag \in {"", "latest"})
          => heads' = heads /\ clones' = clones]_gitVars

\* the repository was resolved with tag v1 and then, without refresh, with
\* tag "latest": the second resolution has returned and the working copy
\* still stands at v1
C27_Witness ==
  /\ gitPc = "done"
  /\ resolving.Cloned /\ ~resolving.Refresh /\ resolving.Tag = "latest"
  /\ resolved = <<"ok", resolving.CachePath>>
  /\ gitOps = << >>
  /\ <<resolving.CachePath, "v1">> \in heads

(***************************************************************************)
(* C28: the image name as a key                                            *)
(***************************************************************************)
\* the tag ensureImage uses for a tag
TagOf(t) == IF t[3] = "" THEN "latest" ELSE t[3]

\* C28: two calls of ensureImage whose (source path, entrypoint, tag) differ
\* compute different image names, so a call without refresh never reuses an
\* image built for another triple.
C28_ImageNameInjective ==
  \A i, j \in DOMAIN imageLog :
    (/\ imageLog[i][1] = "run" /\ imageLog[j][1] = "run"
     /\ <<imageLog[i][2][1], imageLog[i][2][2], TagOf(imageLog[i][2])>>
          # <<imageLog[j][2][1], imageLog[j][2][2], TagOf(imageLog[j][2])>>)
      => imageLog[i][3] # imageLog[j][3]

(***************************************************************************)
(* C30: ListTools returns                                                  *)
(***************************************************************************)
\* C30: a call of ListTools returns its tree, whatever tables the kit global
\* holds, a table that refers to itself or to a table above it included.
C30_ListToolsReturns == (walkPc = "walking") ~> (walkPc = "returned")
====
